---- MODULE Spec2Model ----
(***************************************************************************)
(* Strategy and position-risk engine of bn_bot_with_netflow_signal:        *)
(*   - Backtester (src/bn_execute_bot/backtest.py): sequential replay of   *)
(*     bars through execute_trade;                                         *)
(*   - BinanceFuturesTrader (src/bn_execute_bot/trader.py) and TradingGUI  *)
(*     (src/bn_execute_bot/gui.py): the live strategy thread and the GUI   *)
(*     handlers sharing one trader and one exchange account;               *)
(*   - the signal and sizing functions of the three files.                 *)
(* Python floats are modelled by exact rationals <<n, d>> (d > 0, lowest   *)
(* terms); <<1, 0>> and <<-1, 0>> stand for float('inf') / float('-inf').  *)
(***************************************************************************)
EXTENDS Integers, Sequences, FiniteSets, TLC

VARIABLES
    \* ---- Backtester (backtest.py) ----
    bar,               \* index i of the next row of df handed to execute_trade
    row,               \* the row last handed to execute_trade
    current_position,  \* self.current_position (None or the position dict)
    trades,            \* self.trades
    balance,           \* self.balance
    opened,            \* number of positions created so far (history)
    \* ---- signal functions of the three files, applied to one reading ----
    sig_in,            \* the indicator and flow readings of one bar
    sig_out,           \* what each signal function returned for them
    \* ---- BinanceFuturesTrader.calculate_position_size, one call ----
    sz_in,             \* params and the exchange's answers during the call
    sz_out,            \* the call's outcome
    \* ---- live mode: one trader shared by the strategy thread and the GUI ----
    ex_pos,            \* the exchange's position for BTCUSDT
    ex_leverage,       \* the leverage set on the exchange for BTCUSDT
    ex_orders,         \* the exchange's working conditional orders for BTCUSDT
    sl_tp_orders,      \* trader.sl_tp_orders['BTCUSDT'] (stored: the key exists)
    stop_event,        \* threading.Event of main()
    pc,                \* per thread: the statement it executes next
    loc,               \* per thread: its local variables and return addresses
    opens_since_close, \* opening orders filled since the last closing order (history)
    \* ---- the GUI's signal history (TradingGUI.update_signal_history) ----
    current_time,      \* datetime.now() of the latest call, in seconds
    observed,          \* the signal handed to the latest call
    prev_signal,       \* self.prev_signal
    prev_signal_time,  \* self.prev_signal_time: <<>> is None, <<t>> a time
    signal_history,    \* self.signal_history: (time, signal) pairs
    observations,      \* the number of calls made so far (history)
    \* ---- one call of Backtester.calculate_metrics ----
    mt_in,             \* the trade log handed to the call
    mt_out,            \* the dict it returned
    \* ---- a second Backtester replaying the same rows ----
    second,            \* its current_position, trades and balance
    \* ---- one call of BinanceFuturesTrader.calculate_rsi ----
    rsi_in,            \* the klines' closes and the period handed to the call
    rsi_out,           \* what it returned
    \* ---- the flow lookup of Backtester.generate_signals for one bar ----
    fl_in,             \* the bar's timestamp and the flow samples
    fl_out,            \* the flow values used for the bar
    \* ---- one call of BinanceFuturesTrader.execute_trade ----
    et_out,            \* what it returned and the orders it sent
    \* ---- one run of main() of the netflow crawler ----
    crawler            \* its position, its locals and the rows of the CSV file

btVars == <<bar, row, current_position, trades, balance, opened>>
sigVars == <<sig_in, sig_out>>
szVars == <<sz_in, sz_out>>
exVars == <<ex_pos, ex_leverage, ex_orders>>
liveVars == <<ex_pos, ex_leverage, ex_orders, sl_tp_orders,
              stop_event, pc, loc, opens_since_close>>

histVars == <<current_time, observed, prev_signal, prev_signal_time, signal_history,
              observations>>
mtVars == <<mt_in, mt_out>>
fnVars == <<second, rsi_in, rsi_out, fl_in, fl_out, et_out, crawler>>

vars == <<bar, row, current_position, trades, balance, opened,
          sig_in, sig_out, sz_in, sz_out,
          ex_pos, ex_leverage, ex_orders, sl_tp_orders,
          stop_event, pc, loc, opens_since_close,
          current_time, observed, prev_signal, prev_signal_time, signal_history,
          observations, mt_in, mt_out, second,
          rsi_in, rsi_out, fl_in, fl_out, et_out, crawler>>

(***************************************************************************)
(* Exact rational arithmetic                                               *)
(***************************************************************************)
\* The operations are functions of their arguments' values: an argument is
\* evaluated once, however often the body uses it.
Rat == Int \X Int
AbsOf[x \in Int] == IF x < 0 THEN -x ELSE x
Abs(x) == AbsOf[x]

\* Euclid's algorithm
GCDOf[a \in Nat, b \in Nat] == IF b = 0 THEN a ELSE GCDOf[b, a % b]
GCD(a, b) == GCDOf[a, b]

RNormOf[n \in Int, d \in Int] ==
    LET s == IF d < 0 THEN -1 ELSE 1
        g == GCD(Abs(n), Abs(d))
    IN  <<(s * n) \div g, (s * d) \div g>>
RNorm(n, d) == RNormOf[n, d]

RInt(i) == <<i, 1>>
RNegOf[a \in Rat] == <<-a[1], a[2]>>
RNeg(a) == RNegOf[a]
RAbsOf[a \in Rat] == <<Abs(a[1]), a[2]>>
RAbs(a) == RAbsOf[a]

RMulOf[a \in Rat, b \in Rat] ==
    LET g1 == GCD(Abs(a[1]), b[2])
        g2 == GCD(Abs(b[1]), a[2])
    IN  <<(a[1] \div g1) * (b[1] \div g2), (a[2] \div g2) * (b[2] \div g1)>>
RMul(a, b) == RMulOf[a, b]

RInvOf[a \in Rat] == IF a[1] < 0 THEN <<-a[2], -a[1]>> ELSE <<a[2], a[1]>>
RInv(a) == RInvOf[a]
RDiv(a, b) == RMul(a, RInv(b))

RAddOf[a \in Rat, b \in Rat] ==
    LET g == GCD(a[2], b[2])
    IN  RNorm(a[1] * (b[2] \div g) + b[1] * (a[2] \div g), (a[2] \div g) * b[2])
RAdd(a, b) == RAddOf[a, b]

RSub(a, b) == RAdd(a, RNeg(b))
RLeOf[a \in Rat, b \in Rat] == a[1] * b[2] <= b[1] * a[2]
RLe(a, b) == RLeOf[a, b]
RLtOf[a \in Rat, b \in Rat] == a[1] * b[2] < b[1] * a[2]
RLt(a, b) == RLtOf[a, b]
RMaxOf[a \in Rat, b \in Rat] == IF RLe(a, b) THEN b ELSE a
RMax(a, b) == RMaxOf[a, b]
RMinOf[a \in Rat, b \in Rat] == IF RLe(a, b) THEN a ELSE b
RMin(a, b) == RMinOf[a, b]

Inf == <<1, 0>>
NegInf == <<-1, 0>>
One == RInt(1)
Zero == RInt(0)

(***************************************************************************)
(* Backtester: parameters set by __init__                                  *)
(***************************************************************************)
initial_balance == 10000
rsi_period == 5
rsi_oversold == 40
rsi_overbought == 60
flow_threshold_5m == 100000
flow_threshold_1h == 500000
leverage == 25
risk_percentage == RNorm(20, 100)
tp_percentage == RNorm(5, 100)
sl_percentage == RNorm(-5, 100)
trailing_stop == RNorm(2, 100)

None == [type |-> "None"]

\* float('nan'): every ordered comparison with it is False
NaN == <<0, 0>>
FLt(a, b) == a # NaN /\ b # NaN /\ RLt(a, b)

(***************************************************************************)
(* Backtester.generate_signals: the decision taken for one row from its    *)
(* RSI and the two flow values looked up for it                            *)
(***************************************************************************)
\* mutant: a signal only when the RSI and the flow agree
Mut_generate_signals_Both(rsi, flow_5m, flow_1h) ==
    LET rsi_long == FLt(rsi, RInt(rsi_oversold))
        flow_long == flow_5m < -flow_threshold_5m \/ flow_1h < -flow_threshold_1h
        rsi_short == FLt(RInt(rsi_overbought), rsi)
        flow_short == flow_5m > flow_threshold_5m \/ flow_1h > flow_threshold_1h
    IN  IF rsi_long /\ flow_long THEN 1
        ELSE IF rsi_short /\ flow_short THEN -1
        ELSE 0

generate_signals(rsi, flow_5m, flow_1h) ==
    LET rsi_long == FLt(rsi, RInt(rsi_oversold))
        flow_long == flow_5m < -flow_threshold_5m \/ flow_1h < -flow_threshold_1h
        long_conditions == rsi_long \/ flow_long
        rsi_short == FLt(RInt(rsi_overbought), rsi)
        flow_short == flow_5m > flow_threshold_5m \/ flow_1h > flow_threshold_1h
        short_conditions == rsi_short \/ flow_short
    IN  IF long_conditions THEN 1
        ELSE IF short_conditions THEN -1
        ELSE 0

(***************************************************************************)
(* Backtester.calculate_position_size                                      *)
(***************************************************************************)
\* mutant: risk scaled up by the leverage instead of normalised by the stop
Mut_Size_LeverageScaled(bal, entry_price) ==
    RDiv(RMul(RMul(bal, risk_percentage), RInt(leverage)), entry_price)

Backtester_calculate_position_size(bal, entry_price) ==
    LET risk_amount == RMul(bal, risk_percentage)
        stop_distance == RAbs(sl_percentage)
        position_value == RDiv(risk_amount, RMul(stop_distance, RInt(leverage)))
        contract_qty == RDiv(position_value, entry_price)
    IN  contract_qty

(***************************************************************************)
(* Backtester.execute_trade, branch by branch                              *)
(***************************************************************************)
\* mutant: the opening branch taken on any non-zero signal
Mut_OpensPosition_AnySignal(signal, pos) == signal # 0

\* line 206: the guard of the opening branch
OpensPosition(signal, pos) == signal # 0 /\ pos = None

\* mutant: the extremes of a new position start at 0 and +inf, not at the entry
Mut_NewPosition_NoExtreme(r, signal, bal) ==
    LET entry_price == r.close
    IN  [type |-> IF signal = 1 THEN "long" ELSE "short",
         entry_price |-> entry_price,
         entry_time |-> r.timestamp,
         size |-> Backtester_calculate_position_size(bal, entry_price),
         tp_price |-> IF signal = 1 THEN RMul(entry_price, RAdd(One, tp_percentage))
                      ELSE RMul(entry_price, RSub(One, tp_percentage)),
         sl_price |-> IF signal = 1 THEN RMul(entry_price, RAdd(One, sl_percentage))
                      ELSE RMul(entry_price, RSub(One, sl_percentage)),
         highest_price |-> IF signal = 1 THEN Zero ELSE Inf,
         lowest_price |-> IF signal = -1 THEN Inf ELSE NegInf]

\* lines 207-223: the position dict created from the row
NewPosition(r, signal, bal) ==
    LET entry_price == r.close
        position_size == Backtester_calculate_position_size(bal, entry_price)
        sl_price == IF signal = 1 THEN RMul(entry_price, RAdd(One, sl_percentage))
                    ELSE RMul(entry_price, RSub(One, sl_percentage))
        tp_price == IF signal = 1 THEN RMul(entry_price, RAdd(One, tp_percentage))
                    ELSE RMul(entry_price, RSub(One, tp_percentage))
    IN  [type |-> IF signal = 1 THEN "long" ELSE "short",
         entry_price |-> entry_price,
         entry_time |-> r.timestamp,
         size |-> position_size,
         tp_price |-> tp_price,
         sl_price |-> sl_price,
         highest_price |-> IF signal = 1 THEN entry_price ELSE Inf,
         lowest_price |-> IF signal = -1 THEN entry_price ELSE NegInf]

\* as UpdateExtremes, the extreme following the latest close
Mut_UpdateExtremes_Latest(pos, current_price) ==
    IF pos.type = "long"
    THEN [pos EXCEPT !.highest_price = current_price]
    ELSE [pos EXCEPT !.lowest_price = current_price]

\* lines 231-235: highest/lowest price update for the trailing stop
UpdateExtremes(pos, current_price) ==
    IF pos.type = "long"
    THEN [pos EXCEPT !.highest_price = RMax(pos.highest_price, current_price)]
    ELSE [pos EXCEPT !.lowest_price = RMin(pos.lowest_price, current_price)]

\* lines 237-243: P&L of the position at current_price
PnL(pos, current_price) ==
    LET price_change == IF pos.type = "long"
                        THEN RDiv(RSub(current_price, pos.entry_price), pos.entry_price)
                        ELSE RDiv(RSub(pos.entry_price, current_price), pos.entry_price)
    IN  RMul(RMul(RMul(pos.size, pos.entry_price), price_change), RInt(leverage))

\* mutant: the trailing stop tested before the stop loss
Mut_ExitReason_TrailingBeforeSL(pos, current_price) ==
    IF pos.type = "long"
    THEN IF RLe(pos.tp_price, current_price) THEN "tp"
         ELSE IF RLe(current_price, RMul(pos.highest_price, RSub(One, trailing_stop)))
              THEN "trailing_stop"
         ELSE IF RLe(current_price, pos.sl_price) THEN "sl"
         ELSE ""
    ELSE IF RLe(current_price, pos.tp_price) THEN "tp"
         ELSE IF RLe(RMul(pos.lowest_price, RAdd(One, trailing_stop)), current_price)
              THEN "trailing_stop"
         ELSE IF RLe(pos.sl_price, current_price) THEN "sl"
         ELSE ""

\* mutant: the trailing stop compared strictly
Mut_ExitReason_StrictTrailing(pos, current_price) ==
    IF pos.type = "long"
    THEN IF RLe(pos.tp_price, current_price) THEN "tp"
         ELSE IF RLe(current_price, pos.sl_price) THEN "sl"
         ELSE IF RLt(current_price, RMul(pos.highest_price, RSub(One, trailing_stop)))
              THEN "trailing_stop"
         ELSE ""
    ELSE IF RLe(current_price, pos.tp_price) THEN "tp"
         ELSE IF RLe(pos.sl_price, current_price) THEN "sl"
         ELSE IF RLt(RMul(pos.lowest_price, RAdd(One, trailing_stop)), current_price)
              THEN "trailing_stop"
         ELSE ""

\* lines 245-270: exit_reason ('' when exit_signal stays False); pos has its
\* extremes already updated
ExitReason(pos, current_price) ==
    IF pos.type = "long"
    THEN IF RLe(pos.tp_price, current_price) THEN "tp"
         ELSE IF RLe(current_price, pos.sl_price) THEN "sl"
         ELSE IF RLe(current_price, RMul(pos.highest_price, RSub(One, trailing_stop)))
              THEN "trailing_stop"
         ELSE ""
    ELSE IF RLe(current_price, pos.tp_price) THEN "tp"
         ELSE IF RLe(pos.sl_price, current_price) THEN "sl"
         ELSE IF RLe(RMul(pos.lowest_price, RAdd(One, trailing_stop)), current_price)
              THEN "trailing_stop"
         ELSE ""

\* lines 273-282: the trade dict
NewTrade(pos, r, pnl, exit_reason) ==
    [entry_time |-> pos.entry_time,
     exit_time |-> r.timestamp,
     type |-> pos.type,
     entry_price |-> pos.entry_price,
     exit_price |-> r.close,
     size |-> pos.size,
     pnl |-> pnl,
     exit_reason |-> exit_reason]

\* as AppendTrade, the trade not recorded
Mut_AppendTrade_Dropped(log, trade) == log

\* line 283: self.trades.append(trade)
AppendTrade(log, trade) == Append(log, trade)

\* mutant: the position left in place after its trade is recorded
Mut_PositionAfterExit_Kept(pos) == pos

\* line 285: self.current_position = None
PositionAfterExit(pos) == None

\* as execute_trade, the bar that closes a position opening the next one
\* when its signal is not 0
Mut_execute_trade_Reenters(r, signal) ==
    IF OpensPosition(signal, current_position)
    THEN /\ current_position' = NewPosition(r, signal, balance)
         /\ opened' = opened + 1
         /\ UNCHANGED <<trades, balance>>
    ELSE IF current_position # None
    THEN LET pos == UpdateExtremes(current_position, r.close)
             pnl == PnL(pos, r.close)
             exit_reason == ExitReason(pos, r.close)
         IN  IF exit_reason # ""
             THEN /\ trades' = AppendTrade(trades, NewTrade(pos, r, pnl, exit_reason))
                  /\ balance' = RAdd(balance, pnl)
                  /\ IF signal # 0
                     THEN /\ current_position' = NewPosition(r, signal, RAdd(balance, pnl))
                          /\ opened' = opened + 1
                     ELSE /\ current_position' = PositionAfterExit(pos)
                          /\ opened' = opened
             ELSE /\ current_position' = pos
                  /\ UNCHANGED <<trades, balance, opened>>
    ELSE UNCHANGED <<current_position, trades, balance, opened>>

execute_trade(r, signal) ==
    IF OpensPosition(signal, current_position)
    THEN /\ current_position' = NewPosition(r, signal, balance)
         /\ opened' = opened + 1
         /\ UNCHANGED <<trades, balance>>
    ELSE IF current_position # None
    THEN LET pos == UpdateExtremes(current_position, r.close)
             pnl == PnL(pos, r.close)
             exit_reason == ExitReason(pos, r.close)
         IN  IF exit_reason # ""
             THEN /\ trades' = AppendTrade(trades, NewTrade(pos, r, pnl, exit_reason))
                  /\ balance' = RAdd(balance, pnl)
                  /\ current_position' = PositionAfterExit(pos)
                  /\ opened' = opened
             ELSE /\ current_position' = pos
                  /\ UNCHANGED <<trades, balance, opened>>
    ELSE UNCHANGED <<current_position, trades, balance, opened>>

(***************************************************************************)
(* Backtester.run_backtest: the replay loop over the rows of df.  A row    *)
(* carries its close and the Signal column written by generate_signals,    *)
(* which leaves 0 on the first rsi_period rows.                            *)
(***************************************************************************)
MaxBars == 9

Prices == {70, 95, 98, 99, 100, 101, 102, 105}
RsiValues == {NaN, RInt(30), RInt(40), RInt(50), RInt(60), RInt(70)}
Flow5mValues == {-100001, -100000, 0, 100000, 100001}
Flow1hValues == {-500001, 0, 500001}

RowSignals == {generate_signals(rsi, f5, f1) :
                   rsi \in RsiValues, f5 \in Flow5mValues, f1 \in Flow1hValues}

NoRow == [timestamp |-> -1, close |-> Zero, Signal |-> 0]

\* one iteration of the loop of run_backtest over the rows of the frame; the
\* rows before rsi_period keep the signal column's initial 0
run_backtest_row ==
    /\ bar < MaxBars
    /\ \E close \in Prices :
       \E signal \in (IF bar < rsi_period THEN {0} ELSE RowSignals) :
          LET r == [timestamp |-> bar, close |-> RInt(close), Signal |-> signal]
          IN  /\ row' = r
              /\ execute_trade(r, signal)
    /\ bar' = bar + 1

BTNext == run_backtest_row /\ UNCHANGED <<sigVars, szVars, liveVars, histVars, mtVars, fnVars>>


(***************************************************************************)
(* Two Backtesters built by __init__ and run over the same frame: the      *)
(* second one's execute_trade is applied to the rows handed to the first.  *)
(***************************************************************************)
\* the fields __init__ gives a new Backtester
Fresh == [current_position |-> None, trades |-> <<>>,
          balance |-> RInt(initial_balance)]

\* as execute_trade_of, the entry stamped otherwise than from the row
Mut_execute_trade_of_Stamped(b, r, signal) ==
    IF OpensPosition(signal, b.current_position)
    THEN [b EXCEPT !.current_position =
                     [NewPosition(r, signal, b.balance) EXCEPT !.entry_time = @ + 1]]
    ELSE IF b.current_position # None
    THEN LET pos == UpdateExtremes(b.current_position, r.close)
             pnl == PnL(pos, r.close)
             exit_reason == ExitReason(pos, r.close)
         IN  IF exit_reason # ""
             THEN [current_position |-> PositionAfterExit(pos),
                   trades |-> AppendTrade(b.trades, NewTrade(pos, r, pnl, exit_reason)),
                   balance |-> RAdd(b.balance, pnl)]
             ELSE [b EXCEPT !.current_position = pos]
    ELSE b

\* execute_trade on the Backtester whose fields are b: the fields it leaves
execute_trade_of(b, r, signal) ==
    IF OpensPosition(signal, b.current_position)
    THEN [b EXCEPT !.current_position = NewPosition(r, signal, b.balance)]
    ELSE IF b.current_position # None
    THEN LET pos == UpdateExtremes(b.current_position, r.close)
             pnl == PnL(pos, r.close)
             exit_reason == ExitReason(pos, r.close)
         IN  IF exit_reason # ""
             THEN [current_position |-> PositionAfterExit(pos),
                   trades |-> AppendTrade(b.trades, NewTrade(pos, r, pnl, exit_reason)),
                   balance |-> RAdd(b.balance, pnl)]
             ELSE [b EXCEPT !.current_position = pos]
    ELSE b

\* the same row of the same frame in both runs
run_twice_row ==
    /\ run_backtest_row
    /\ second' = execute_trade_of(second, row', row'.Signal)

TwiceNext ==
    run_twice_row /\ UNCHANGED <<sigVars, szVars, liveVars, histVars, mtVars,
                                  rsi_in, rsi_out, fl_in, fl_out, et_out, crawler>>


(***************************************************************************)
(* Properties of the backtest                                              *)
(***************************************************************************)
IsOpen == current_position # None
LastTrade == trades[Len(trades)]

\* the exit conditions in the words of the specification
TakeProfitHit(pos, c) ==
    IF pos.type = "long"
    THEN RLe(RMul(pos.entry_price, RAdd(One, tp_percentage)), c)
    ELSE RLe(c, RMul(pos.entry_price, RSub(One, tp_percentage)))
StopLossPrice(type, entry) ==
    IF type = "long"
    THEN RMul(entry, RAdd(One, sl_percentage))
    ELSE RMul(entry, RSub(One, sl_percentage))
StopLossHit(pos, c) ==
    IF pos.type = "long"
    THEN RLe(c, StopLossPrice("long", pos.entry_price))
    ELSE RLe(StopLossPrice("short", pos.entry_price), c)
\* extreme: the best close since entry, the current one included
Extreme(pos, c) ==
    IF pos.type = "long" THEN RMax(pos.highest_price, c) ELSE RMin(pos.lowest_price, c)
TrailingHit(pos, c) ==
    IF pos.type = "long"
    THEN RLe(c, RMul(Extreme(pos, c), RSub(One, trailing_stop)))
    ELSE RLe(RMul(Extreme(pos, c), RAdd(One, trailing_stop)), c)
ClosedWith(reason) ==
    /\ current_position' = None
    /\ trades' = Append(trades, trades'[Len(trades')])
    /\ trades'[Len(trades')].exit_reason = reason
StaysOpen == current_position' # None /\ trades' = trades

\* C1: a position is opened only on a bar with a non-zero signal while no
\* position is open, and a signal arriving while a position is open never
\* replaces it or changes its direction, entry price, entry time or size.
C1_OpenOnlyWhenFlat ==
    [][ /\ opened' # opened =>
              /\ current_position = None
              /\ row'.Signal # 0
              /\ opened' = opened + 1
              /\ current_position' # None
        /\ (current_position = None /\ current_position' # None) => opened' = opened + 1
        /\ (current_position # None /\ current_position' # None) =>
              /\ current_position'.type = current_position.type
              /\ current_position'.entry_price = current_position.entry_price
              /\ current_position'.entry_time = current_position.entry_time
              /\ current_position'.size = current_position.size
      ]_vars

\* C1 witness: an opposite-direction signal arrived on a later bar while a
\* long position was open, and the long position is still the open one
C1_Witness ==
    /\ IsOpen
    /\ current_position.type = "long"
    /\ row.Signal = -1
    /\ row.timestamp > current_position.entry_time

\* C4: on a bar evaluated while a position is open, take-profit is tested
\* first, stop-loss second, trailing-stop third; the first match closes the
\* position with exactly that reason (stop-loss wins over trailing-stop), and
\* without a match the position stays open.
C4_ExitPriority ==
    [][ (current_position # None /\ bar' = bar + 1) =>
          LET pos == current_position
              c == row'.close
          IN  IF TakeProfitHit(pos, c) THEN ClosedWith("tp")
              ELSE IF StopLossHit(pos, c) THEN ClosedWith("sl")
              ELSE IF TrailingHit(pos, c) THEN ClosedWith("trailing_stop")
              ELSE StaysOpen
      ]_vars

\* C4 witness: a long and a short trade were each closed as 'sl' on a bar that
\* also satisfied the trailing-stop condition
C4_Witness ==
    \E i, j \in 1..Len(trades) :
        /\ trades[i].type = "long" /\ trades[i].exit_reason = "sl"
        /\ RLe(trades[i].exit_price,
               RMul(trades[i].entry_price, RSub(One, trailing_stop)))
        /\ trades[j].type = "short" /\ trades[j].exit_reason = "sl"
        /\ RLe(RMul(trades[j].entry_price, RAdd(One, trailing_stop)),
               trades[j].exit_price)

\* C5: each close appends exactly one trade and clears the position in the
\* same step; the log only grows by appending; the number of trades is the
\* number of positions opened, minus one while a position is open.
C5_CountInv == opened = Len(trades) + (IF IsOpen THEN 1 ELSE 0)
C5_TradeLog ==
    /\ C5_CountInv
    /\ [][ /\ C5_CountInv'
           /\ \/ trades' = trades
              \/ /\ Len(trades') = Len(trades) + 1
                 /\ SubSeq(trades', 1, Len(trades)) = trades
                 /\ current_position # None
                 /\ current_position' = None
           /\ (current_position # None /\ current_position' = None) =>
                 Len(trades') = Len(trades) + 1
      ]_vars

\* C5 witness: two positions were opened, the first was closed into the one
\* trade of the log, the second is open
C5_Witness == opened = 2 /\ Len(trades) = 1 /\ IsOpen

\* balance before the k-th position was opened: initial balance plus the pnl
\* of the trades closed before it
RECURSIVE BalanceBefore(_)
BalanceBefore(k) ==
    IF k <= 1 THEN RInt(initial_balance)
    ELSE RAdd(BalanceBefore(k - 1), trades[k - 1].pnl)

SizingIdentity(size, entry, bal) ==
    RMul(RMul(RMul(size, entry), RAbs(sl_percentage)), RInt(leverage))
        = RMul(bal, risk_percentage)

\* C7: for balance > 0 the size q of a position satisfies
\* q * entry_price * |sl_percentage| * leverage = balance * risk_percentage,
\* and a trade closed exactly at its stop-loss price has pnl = -risk amount.
C7_RiskAtStop ==
    /\ (IsOpen /\ RLt(Zero, balance)) =>
          SizingIdentity(current_position.size, current_position.entry_price, balance)
    /\ \A k \in 1..Len(trades) :
          RLt(Zero, BalanceBefore(k)) =>
            /\ SizingIdentity(trades[k].size, trades[k].entry_price, BalanceBefore(k))
            /\ trades[k].exit_price = StopLossPrice(trades[k].type, trades[k].entry_price)
                  => trades[k].pnl = RNeg(RMul(BalanceBefore(k), risk_percentage))

\* C7 witness: a trade closed exactly at its stop-loss price, sized from a
\* positive balance
C7_Witness ==
    \E k \in 1..Len(trades) :
        /\ RLt(Zero, BalanceBefore(k))
        /\ trades[k].exit_price = StopLossPrice(trades[k].type, trades[k].entry_price)
        /\ trades[k].exit_reason = "sl"

\* C9: every trade has pnl = size * entry_price * r * leverage with r the
\* signed relative price change, hence pnl > 0 exactly when the exit price is
\* above the entry price (long) or below it (short).
C9_PnlFormula ==
    \A k \in 1..Len(trades) :
        LET t == trades[k]
            r == IF t.type = "long"
                 THEN RDiv(RSub(t.exit_price, t.entry_price), t.entry_price)
                 ELSE RDiv(RSub(t.entry_price, t.exit_price), t.entry_price)
        IN  t.pnl = RMul(RMul(RMul(t.size, t.entry_price), r), RInt(leverage))
C9_PnlSign ==
    /\ C9_PnlFormula
    /\ \A k \in 1..Len(trades) :
          LET t == trades[k]
          IN  RLt(Zero, t.pnl) <=>
                IF t.type = "long" THEN RLt(t.entry_price, t.exit_price)
                ELSE RLt(t.exit_price, t.entry_price)

\* Scenario D: long, extreme 110, 2% trail (entry 105: tp 110.25, sl 99.75)
ScenarioD_Position ==
    [type |-> "long", entry_price |-> RInt(105), entry_time |-> 0,
     size |-> One,
     tp_price |-> RNorm(11025, 100), sl_price |-> RNorm(9975, 100),
     highest_price |-> RInt(110), lowest_price |-> NegInf]
ScenarioD ==
    /\ ExitReason(ScenarioD_Position, RNorm(10780, 100)) = "trailing_stop"
    /\ ExitReason(ScenarioD_Position, RNorm(10781, 100)) = ""

\* C10: when neither take-profit nor stop-loss matches on a bar, a long is
\* closed by the trailing stop iff close <= highest_price * (1 - trailing_stop)
\* and a short iff close >= lowest_price * (1 + trailing_stop), boundary
\* included (extreme 110, 2%: fires at 107.8, not at 107.81).
C10_TrailingBoundary ==
    [][ /\ ScenarioD
        /\ (current_position # None /\ bar' = bar + 1) =>
            LET pos == current_position
                c == row'.close
                hi == RMax(pos.highest_price, c)
                lo == RMin(pos.lowest_price, c)
                cond == IF pos.type = "long"
                        THEN c[1] * 100 * hi[2] <= hi[1] * 98 * c[2]
                        ELSE c[1] * 100 * lo[2] >= lo[1] * 102 * c[2]
            IN  (~TakeProfitHit(pos, c) /\ ~StopLossHit(pos, c)) =>
                  (ClosedWith("trailing_stop") <=> cond)
      ]_vars

\* C10 witness: a long closed by the trailing stop exactly at 98% of its
\* extreme (entry 100, next close 98) and a short exactly at 102% (100, 102)
C10_Witness ==
    \E i, j \in 1..Len(trades) :
        /\ trades[i].type = "long" /\ trades[i].exit_reason = "trailing_stop"
        /\ trades[i].entry_price = RInt(100) /\ trades[i].exit_price = RInt(98)
        /\ trades[i].exit_time = trades[i].entry_time + 1
        /\ trades[j].type = "short" /\ trades[j].exit_reason = "trailing_stop"
        /\ trades[j].entry_price = RInt(100) /\ trades[j].exit_price = RInt(102)
        /\ trades[j].exit_time = trades[j].entry_time + 1

\* C11 (as stated): a trade is recorded as 'trailing_stop' only for a
\* position whose close has, on some bar since entry, been at least
\* trailing_stop beyond the entry price in the position's favour.
C11_TrailingNeedsFavourableMove ==
    [][ (IsOpen /\ ClosedWith("trailing_stop")) =>
          LET pos == current_position
          IN  IF pos.type = "long"
              THEN RLe(RMul(pos.entry_price, RAdd(One, trailing_stop)), pos.highest_price)
              ELSE RLe(pos.lowest_price, RMul(pos.entry_price, RSub(One, trailing_stop)))
      ]_vars

\* C11 (amended): the extreme starts at the entry price, so a 'trailing_stop'
\* trade is recorded only on a close at least trailing_stop behind the more
\* favourable of the entry price and the closes since entry; no favourable
\* move is needed first.
C11_TrailingFromExtreme ==
    [][ (IsOpen /\ ClosedWith("trailing_stop")) =>
          LET pos == current_position
              c == row'.close
          IN  IF pos.type = "long"
              THEN LET hi == RMax(pos.highest_price, c)
                   IN  /\ RLe(pos.entry_price, hi)
                       /\ RLe(c, RMul(hi, RSub(One, trailing_stop)))
              ELSE LET lo == RMin(pos.lowest_price, c)
                   IN  /\ RLe(lo, pos.entry_price)
                       /\ RLe(RMul(lo, RAdd(One, trailing_stop)), c)
      ]_vars

\* C11 witness: a long closed by the trailing stop on the bar after its entry,
\* below its entry price
C11_Witness ==
    \E k \in 1..Len(trades) :
        /\ trades[k].type = "long" /\ trades[k].exit_reason = "trailing_stop"
        /\ trades[k].exit_time = trades[k].entry_time + 1
        /\ RLt(trades[k].exit_price, trades[k].entry_price)

\* C32: the extreme price of an open position starts at the entry price and
\* is the running maximum (long: highest_price) or minimum (short:
\* lowest_price) of the entry price and the closes evaluated since; it never
\* moves back
C32_ExtremeMonotone ==
    [][ /\ (~IsOpen /\ current_position' # None) =>
              LET q == current_position'
              IN  /\ q.entry_price = row'.close
                  /\ q.type = "long" => q.highest_price = q.entry_price
                  /\ q.type = "short" => q.lowest_price = q.entry_price
        /\ (IsOpen /\ current_position' # None) =>
              LET p == current_position
                  q == current_position'
                  c == row'.close
              IN  /\ q.type = p.type /\ q.entry_price = p.entry_price
                  /\ p.type = "long" =>
                        /\ RLe(p.highest_price, q.highest_price)
                        /\ RLe(c, q.highest_price)
                        /\ q.highest_price \in {p.highest_price, c}
                        /\ RLe(q.entry_price, q.highest_price)
                  /\ p.type = "short" =>
                        /\ RLe(q.lowest_price, p.lowest_price)
                        /\ RLe(q.lowest_price, c)
                        /\ q.lowest_price \in {p.lowest_price, c}
                        /\ RLe(q.lowest_price, q.entry_price)
      ]_vars

\* a long whose highest price rose above the entry and stayed there when the
\* close came back down
C32_Witness ==
    /\ IsOpen /\ current_position.type = "long"
    /\ RLt(current_position.entry_price, current_position.highest_price)
    /\ RLt(row.close, current_position.highest_price)

\* C34: a bar opens a position or closes one, never both: the opening bar
\* evaluates no exit, the closing bar opens nothing whatever its signal; so
\* every trade exits on a later bar than it entered, and the next entry
\* comes on a later bar than the exit before it
C34_OneActionPerBar ==
    [][ bar' = bar + 1 =>
          /\ ~(opened' > opened /\ Len(trades') > Len(trades))
          /\ opened' > opened =>
                /\ trades' = trades /\ balance' = balance
                /\ current_position' # None
                /\ current_position'.entry_time = row'.timestamp
          /\ Len(trades') > Len(trades) =>
                /\ current_position' = None
                /\ trades'[Len(trades')].exit_time = row'.timestamp
          /\ \A k \in 1..Len(trades') :
                trades'[k].entry_time < trades'[k].exit_time
          /\ \A k \in 1..(Len(trades') - 1) :
                trades'[k].exit_time < trades'[k + 1].entry_time
          /\ (current_position' # None /\ trades' # <<>>) =>
                trades'[Len(trades')].exit_time < current_position'.entry_time
      ]_vars

\* a bar with a signal closed the position and left the Backtester flat
C34_Witness ==
    /\ ~IsOpen
    /\ trades # <<>>
    /\ row.Signal # 0
    /\ trades[Len(trades)].exit_time = row.timestamp

(***************************************************************************)
(* The signal functions of the live code                                   *)
(***************************************************************************)
\* BinanceFuturesTrader.get_coinglass_flow_data: the placeholder it returns
get_coinglass_flow_data == [m5 |-> 0, h1 |-> 0]

\* the strategy parameters local to check_strategy_conditions
Trader_rsi_period == 5
Trader_rsi_oversold == 40
Trader_rsi_overbought == 60
Trader_flow_threshold_5m == 100000
Trader_flow_threshold_1h == 500000

NoSignal == [signal |-> "None", trigger |-> "None"]

\* BinanceFuturesTrader.check_strategy_conditions; klines_ok: the klines call
\* returned rsi_period + 1 rows; rsi_ok: calculate_rsi returned a number
check_strategy_conditions(klines_ok, rsi_ok, rsi) ==
    IF ~klines_ok THEN NoSignal
    ELSE IF ~rsi_ok THEN NoSignal
    ELSE
      LET flow_5m == get_coinglass_flow_data.m5
          flow_1h == get_coinglass_flow_data.h1
          rsi_long == FLt(rsi, RInt(Trader_rsi_oversold))
          flow_long == flow_5m < -Trader_flow_threshold_5m
                           \/ flow_1h < -Trader_flow_threshold_1h
          long_conditions == rsi_long \/ flow_long
          rsi_short == FLt(RInt(Trader_rsi_overbought), rsi)
          flow_short == flow_5m > Trader_flow_threshold_5m
                            \/ flow_1h > Trader_flow_threshold_1h
          short_conditions == rsi_short \/ flow_short
      IN  IF long_conditions
          THEN [signal |-> "long", trigger |-> IF rsi_long THEN "RSI" ELSE "Flow"]
          ELSE IF short_conditions
          THEN [signal |-> "short", trigger |-> IF rsi_short THEN "RSI" ELSE "Flow"]
          ELSE NoSignal

\* TradingGUI.load_coinglass_data: it updates the labels from the latest row
\* of the file and has no return statement with a value, so its caller
\* receives None whatever the file holds
GUI_load_coinglass_data(file_flow_5m) == [present |-> FALSE, m5 |-> 0]

\* the thresholds written in TradingGUI.generate_signal
GUI_rsi_low == 20
GUI_rsi_high == 80
GUI_flow_threshold == 500000

\* TradingGUI.generate_signal, from the indicators it computes of the klines
generate_signal(klines_ok, current_price, ma5, ma20, ma50, rsi, file_flow_5m) ==
    IF ~klines_ok THEN "NO SIGNAL"
    ELSE
      LET coinglass_data == GUI_load_coinglass_data(file_flow_5m)
          flow_5m == IF coinglass_data.present THEN coinglass_data.m5 ELSE 0
          long_conditions == /\ ma5 > ma20
                             /\ FLt(rsi, RInt(GUI_rsi_low))
                             /\ flow_5m < -GUI_flow_threshold
                             /\ current_price > ma50
          short_conditions == /\ ma5 < ma20
                              /\ FLt(RInt(GUI_rsi_high), rsi)
                              /\ flow_5m > GUI_flow_threshold
                              /\ current_price < ma50
      IN  IF long_conditions THEN "BUY"
          ELSE IF short_conditions THEN "SELL"
          ELSE "NO SIGNAL"

(***************************************************************************)
(* One reading of the indicators handed to the three signal functions      *)
(***************************************************************************)
SigRsiValues == {NaN, RInt(10), RInt(30), RInt(40), RInt(50), RInt(60), RInt(90),
                 RInt(100)}
SigFlow5mValues == {-500001, -100001, -100000, 0, 100000, 100001, 500001}
SigMaShortValues == {99, 100, 101}
SigPriceValues == {99, 101}

SigReadings ==
    [used : {TRUE}, klines_ok : BOOLEAN, rsi : SigRsiValues,
     flow_5m : SigFlow5mValues, flow_1h : Flow1hValues,
     ma_short : SigMaShortValues, ma_long : {100}, ma50 : {100},
     price : SigPriceValues]

SigBacktest ==
    /\ ~sig_out.bt_done
    /\ sig_out' = [sig_out EXCEPT !.bt_done = TRUE,
                     !.bt = generate_signals(sig_in.rsi, sig_in.flow_5m, sig_in.flow_1h)]
    /\ UNCHANGED sig_in

SigTrader ==
    /\ ~sig_out.tr_done
    /\ sig_out' = [sig_out EXCEPT !.tr_done = TRUE,
                     !.tr = check_strategy_conditions(sig_in.klines_ok,
                                                      sig_in.rsi # NaN, sig_in.rsi)]
    /\ UNCHANGED sig_in

SigGui ==
    /\ ~sig_out.gui_done
    /\ sig_out' = [sig_out EXCEPT !.gui_done = TRUE,
                     !.gui = generate_signal(sig_in.klines_ok, sig_in.price,
                                             sig_in.ma_short, sig_in.ma_long,
                                             sig_in.ma50, sig_in.rsi, sig_in.flow_5m)]
    /\ UNCHANGED sig_in

SigNext ==
    (SigBacktest \/ SigTrader \/ SigGui) /\ UNCHANGED <<btVars, szVars, liveVars, histVars, mtVars, fnVars>>


\* the readings in the words of the specification
BullishTrend == sig_in.ma_short > sig_in.ma_long
BearishTrend == sig_in.ma_short < sig_in.ma_long
RsiBelow(th) == FLt(sig_in.rsi, RInt(th))
RsiAbove(th) == FLt(RInt(th), sig_in.rsi)
FlowBullish == sig_in.flow_5m < -flow_threshold_5m \/ sig_in.flow_1h < -flow_threshold_1h
FlowBearish == sig_in.flow_5m > flow_threshold_5m \/ sig_in.flow_1h > flow_threshold_1h

C38_GuiSignalUsesFileFlow ==
    (sig_out.gui_done /\ sig_in.klines_ok) =>
        /\ (BullishTrend /\ RsiBelow(GUI_rsi_low) /\ sig_in.price > sig_in.ma50
             /\ sig_in.flow_5m < -GUI_flow_threshold) => sig_out.gui = "BUY"
        /\ (BearishTrend /\ RsiAbove(GUI_rsi_high) /\ sig_in.price < sig_in.ma50
             /\ sig_in.flow_5m > GUI_flow_threshold) => sig_out.gui = "SELL"

(***************************************************************************)
(* BinanceFuturesTrader.calculate_position_size                            *)
(***************************************************************************)
\* float(params['price']) for the price texts the callers pass
PriceTexts == {"0", "0.0", "100.0"}
FloatOfPrice(text) == IF text = "100.0" THEN RInt(100) ELSE Zero

max_retries == 2
fallback_price_BTCUSDT == 83000

\* Python's round(x, ndigits): to the nearest multiple of 10^-ndigits, a tie
\* going to the even one
PyRoundOf[x \in Rat, ndigits \in Nat] ==
    LET p == 10 ^ ndigits
        y == RMul(x, RInt(p))
        fl == y[1] \div y[2]
        rem2 == 2 * (y[1] - fl * y[2])
        r == IF rem2 < y[2] THEN fl
             ELSE IF rem2 > y[2] THEN fl + 1
             ELSE IF fl % 2 = 0 THEN fl ELSE fl + 1
    IN  RNorm(r, p)
PyRound(x, ndigits) == PyRoundOf[x, ndigits]

SizeError(why) == [done |-> TRUE, ok |-> FALSE, why |-> why]

\* as EntryPrice, the fallback taken at once instead of fetching again
Mut_EntryPrice_NoRetry(params, ticker) ==
    LET first == params.price = "0"
        p0 == IF first THEN ticker[1].price ELSE FloatOfPrice(params.price)
        n0 == IF first THEN 1 ELSE 0
        failed == \E i \in 1..n0 : ~ticker[i].ok
        fb == RLe(p0, Zero)
    IN  [ok |-> ~failed,
         price |-> IF fb THEN RInt(fallback_price_BTCUSDT) ELSE p0,
         fetches |-> n0,
         fallback |-> fb]

\* the entry price after lines 174-194; ticker[i] is the answer to the i-th
\* futures_symbol_ticker call of this invocation ([ok, price]).  Yields
\* [ok, price, fetches, fallback].
EntryPrice(params, ticker) ==
    LET first == params.price = "0"
        p0 == IF first THEN ticker[1].price ELSE FloatOfPrice(params.price)
        n0 == IF first THEN 1 ELSE 0
        \* attempt 0
        f1 == RLe(p0, Zero)
        p1 == IF f1 THEN ticker[n0 + 1].price ELSE p0
        n1 == IF f1 THEN n0 + 1 ELSE n0
        \* attempt 1, reached only when attempt 0 did not break
        f2 == f1 /\ RLe(p1, Zero)
        p2 == IF f2 THEN ticker[n1 + 1].price ELSE p1
        n2 == IF f2 THEN n1 + 1 ELSE n1
        failed == \E i \in 1..n2 : ~ticker[i].ok
        fb == RLe(p2, Zero)
    IN  [ok |-> ~failed,
         price |-> IF fb THEN RInt(fallback_price_BTCUSDT) ELSE p2,
         fetches |-> n2,
         fallback |-> fb]

\* as Trader_calculate_position_size, without the test of lines 215-216
Mut_Trader_calculate_position_size_NoCheck(params, ticker, bal, info) ==
    LET e == EntryPrice(params, ticker)
    IN  IF ~e.ok THEN SizeError("ticker")
        ELSE IF ~bal.ok THEN SizeError("Failed to fetch account balance")
        ELSE
          LET available_balance == bal.available
              risk_amount == RMul(available_balance, params.risk_percentage)
              position_value == RMul(risk_amount, RInt(params.leverage))
              unrounded == RDiv(position_value, e.price)
          IN  IF ~info.ok THEN SizeError("exchange_info")
              ELSE
                LET size == IF info.listed
                            THEN PyRound(unrounded, info.quantityPrecision)
                            ELSE unrounded
                IN  [done |-> TRUE, ok |-> TRUE, why |-> "", size |-> size,
                     unrounded |-> unrounded, entry_price |-> e.price,
                     fetches |-> e.fetches, fallback |-> e.fallback,
                     available |-> available_balance]

\* calculate_position_size(params): bal is the answer of get_account_balance
\* ([ok, available]), info that of futures_exchange_info ([ok, listed,
\* quantityPrecision]).  The result records the locals the claims speak of.
Trader_calculate_position_size(params, ticker, bal, info) ==
    LET e == EntryPrice(params, ticker)
    IN  IF ~e.ok THEN SizeError("ticker")
        ELSE IF ~bal.ok THEN SizeError("Failed to fetch account balance")
        ELSE
          LET available_balance == bal.available
              risk_amount == RMul(available_balance, params.risk_percentage)
              position_value == RMul(risk_amount, RInt(params.leverage))
              unrounded == RDiv(position_value, e.price)
          IN  IF ~info.ok THEN SizeError("exchange_info")
              ELSE
                LET size == IF info.listed
                            THEN PyRound(unrounded, info.quantityPrecision)
                            ELSE unrounded
                IN  IF RLe(size, Zero)
                    THEN SizeError("Calculated position size is zero or negative")
                    ELSE [done |-> TRUE, ok |-> TRUE, why |-> "", size |-> size,
                          unrounded |-> unrounded, entry_price |-> e.price,
                          fetches |-> e.fetches, fallback |-> e.fallback,
                          available |-> available_balance]

\* the inputs of one call
MaxTickerCalls == 1 + max_retries
TickerAnswers == {[ok |-> FALSE, price |-> Zero], [ok |-> TRUE, price |-> Zero],
                  [ok |-> TRUE, price |-> RInt(100)]}
BalanceAnswers == {[ok |-> FALSE, available |-> Zero],
                   [ok |-> TRUE, available |-> RInt(10000)],
                   [ok |-> TRUE, available |-> RInt(1)]}
InfoAnswers == {[ok |-> FALSE, listed |-> FALSE, quantityPrecision |-> 0],
                [ok |-> TRUE, listed |-> FALSE, quantityPrecision |-> 0],
                [ok |-> TRUE, listed |-> TRUE, quantityPrecision |-> 0],
                [ok |-> TRUE, listed |-> TRUE, quantityPrecision |-> 3]}
SizeParams ==
    [contract : {"BTCUSDT"}, price : PriceTexts, leverage : {10, 25},
     risk_percentage : {RNorm(20, 100)}, stop_loss : {RInt(-5)}]

SizeInputs ==
    [used : {TRUE}, params : SizeParams,
     ticker : [1..MaxTickerCalls -> TickerAnswers],
     bal : BalanceAnswers, info : InfoAnswers]

SzCall ==
    /\ ~sz_out.done
    /\ sz_out' = Trader_calculate_position_size(sz_in.params, sz_in.ticker,
                                                sz_in.bal, sz_in.info)
    /\ UNCHANGED sz_in

SzNext == SzCall /\ UNCHANGED <<btVars, sigVars, liveVars, histVars, mtVars, fnVars>>

\* C27: the quantity returned for a listed contract is the unrounded one
\* rounded down to quantityPrecision: a multiple of 10^-quantityPrecision
\* that does not exceed the unrounded quantity
C27_RoundedDown ==
    (sz_out.done /\ sz_out.ok /\ sz_in.info.listed) =>
        LET scaled == RMul(sz_out.size, RInt(10 ^ sz_in.info.quantityPrecision))
        IN  /\ scaled[2] = 1
            /\ RLe(sz_out.size, sz_out.unrounded)

\* C28: an entry price <= 0 is fetched again at most max_retries = 2 times,
\* the loop stopping at the first positive answer; still <= 0 after that, it
\* is replaced by the contract's fallback constant; the price the quantity is
\* computed from is strictly positive in every case
C28_EntryPricePositive ==
    (sz_out.done /\ sz_out.ok) =>
        LET given == sz_in.params.price # "0"
            initial == IF given THEN 0 ELSE 1
            refetches == sz_out.fetches - initial
            \* the prices the call saw, in order
            seen == (IF given THEN <<FloatOfPrice(sz_in.params.price)>> ELSE <<>>)
                        \o [i \in 1..sz_out.fetches |-> sz_in.ticker[i].price]
        IN  /\ refetches \in 0..2
            /\ RLt(Zero, sz_out.entry_price)
            /\ \A i \in 1..(Len(seen) - 1) : RLe(seen[i], Zero)
            /\ Len(seen) = refetches + 1
            /\ IF RLt(Zero, seen[Len(seen)])
               THEN ~sz_out.fallback /\ sz_out.entry_price = seen[Len(seen)]
               ELSE /\ sz_out.fallback
                    /\ refetches = 2
                    /\ sz_out.entry_price = RInt(83000)

\* both repeated fetches answered 0 and the fallback was used
C28_Witness ==
    /\ sz_out.done /\ sz_out.ok
    /\ sz_in.params.price = "0.0"
    /\ sz_out.fetches = 2
    /\ sz_out.fallback
    /\ sz_out.entry_price = RInt(83000)

\* the second fetch answered a positive price and the loop stopped there
C28_WitnessRetry ==
    /\ sz_out.done /\ sz_out.ok
    /\ sz_in.params.price = "0"
    /\ sz_out.fetches = 2
    /\ ~sz_out.fallback
    /\ sz_out.entry_price = RInt(100)

\* execute_trade(params) as one call: leverage_ok and order_ok tell whether
\* futures_change_leverage and futures_create_order answered or raised.
\* Yields what the call returned, the orders it sent and the outcome of its
\* calculate_position_size.
Trader_execute_trade(params, leverage_ok, ticker, bal, info, order_ok) ==
    IF ~leverage_ok
    THEN [done |-> TRUE, returned |-> FALSE, sent |-> <<>>, sized |-> FALSE]
    ELSE
      LET order_type == IF params.price \in {"0", "0.0"} THEN "MARKET" ELSE "LIMIT"
          side == IF params.direction = "long" THEN "BUY" ELSE "SELL"
          r == Trader_calculate_position_size(params, ticker, bal, info)
      IN  IF ~r.ok
          THEN [done |-> TRUE, returned |-> FALSE, sent |-> <<>>, sized |-> TRUE,
                raised |-> TRUE, why |-> r.why]
          ELSE IF RLe(r.size, Zero)
          THEN [done |-> TRUE, returned |-> FALSE, sent |-> <<>>, sized |-> TRUE,
                raised |-> FALSE, why |-> ""]
          ELSE [done |-> TRUE, returned |-> order_ok,
                sent |-> <<[side |-> side, type |-> order_type, quantity |-> r.size]>>,
                sized |-> TRUE, raised |-> FALSE, why |-> ""]

\* the inputs of one call of execute_trade
TradeInputs ==
    [used : {TRUE},
     params : [contract : {"BTCUSDT"}, price : PriceTexts, leverage : {10, 25},
               risk_percentage : {RNorm(20, 100)}, stop_loss : {RInt(-5)},
               direction : {"long", "short"}],
     ticker : [1..MaxTickerCalls -> TickerAnswers],
     bal : BalanceAnswers, info : InfoAnswers,
     leverage_ok : BOOLEAN, order_ok : BOOLEAN]

EtCall ==
    /\ sz_in.used /\ ~et_out.done
    /\ et_out' = Trader_execute_trade(sz_in.params, sz_in.leverage_ok, sz_in.ticker,
                                      sz_in.bal, sz_in.info, sz_in.order_ok)
    /\ UNCHANGED <<sz_in, sz_out>>

TradeNext ==
    EtCall /\ UNCHANGED <<btVars, sigVars, liveVars, histVars, mtVars,
                          second, rsi_in, rsi_out, fl_in, fl_out, crawler>>

\* the quantity of lines 201-213 for the inputs of the call, when every
\* answer it needs arrived
Quantity ==
    LET e == EntryPrice(sz_in.params, sz_in.ticker)
        unrounded == RDiv(RMul(RMul(sz_in.bal.available, sz_in.params.risk_percentage),
                               RInt(sz_in.params.leverage)), e.price)
    IN  [answered |-> e.ok /\ sz_in.bal.ok /\ sz_in.info.ok,
         unrounded |-> unrounded,
         size |-> IF sz_in.info.listed
                  THEN PyRound(unrounded, sz_in.info.quantityPrecision)
                  ELSE unrounded]

\* C26: when the quantity is <= 0 after rounding, calculate_position_size
\* raises its own error and execute_trade returns False having sent no order
C26_NoOrderForZeroSize ==
    (et_out.done /\ et_out.sized /\ Quantity.answered /\ RLe(Quantity.size, Zero)) =>
        /\ et_out.raised
        /\ et_out.why = "Calculated position size is zero or negative"
        /\ et_out.returned = FALSE
        /\ et_out.sent = <<>>

\* a positive quantity that rounding took to 0 ended the call so, the
\* exchange ready to accept the order
C26_Witness ==
    /\ et_out.done /\ et_out.sized /\ et_out.raised
    /\ Quantity.answered
    /\ RLt(Zero, Quantity.unrounded)
    /\ Quantity.size = Zero
    /\ sz_in.order_ok
    /\ et_out.returned = FALSE /\ et_out.sent = <<>>



\* C8: before precision rounding the quantity is
\* availableBalance * riskFraction / (stopDistance * leverage * entryPrice);
\* availableBalance 10000, riskFraction 0.20, leverage 25, stopDistance 0.05,
\* entryPrice 100 give risk amount 2000 and quantity 16.
C8_StopNormalisedQuantity ==
    (sz_out.done /\ sz_out.ok) =>
        LET stopDistance == RDiv(RAbs(sz_in.params.stop_loss), RInt(100))
            riskAmount == RMul(sz_out.available, sz_in.params.risk_percentage)
        IN  /\ sz_out.unrounded =
                 RDiv(riskAmount,
                      RMul(RMul(stopDistance, RInt(sz_in.params.leverage)),
                           sz_out.entry_price))
            /\ (/\ sz_out.available = RInt(10000)
                /\ sz_in.params.leverage = 25
                /\ sz_out.entry_price = RInt(100))
                 => (riskAmount = RInt(2000) /\ sz_out.unrounded = RInt(16))

\* what the code computes for Scenario A: 2000 * 25 / 100 = 500
C8_ScenarioA_Code ==
    (/\ sz_out.done /\ sz_out.ok
     /\ sz_out.available = RInt(10000)
     /\ sz_in.params.leverage = 25
     /\ sz_out.entry_price = RInt(100))
      => sz_out.unrounded = RInt(500)

(***************************************************************************)
(* Live mode: the exchange, the trader object shared by the two threads of *)
(* main(), and the methods of BinanceFuturesTrader.  A step is one call of *)
(* the exchange API (it answers or raises) together with the local code up *)
(* to the next call.                                                       *)
(***************************************************************************)
Threads == {"strategy", "gui"}
Contract == "BTCUSDT"
\* the market price at which a market order fills
MarketPrice == RInt(100)

MaxCycles == 1       \* calls of execute_strategy by strategy_loop
MaxGuiOps == 1       \* button handlers the user starts

NoParams == [direction |-> "None"]
InitLoc ==
    [ret |-> <<>>,            \* return addresses of the calls in progress
     positions |-> <<>>,      \* the list get_open_positions returns
     ok |-> FALSE,            \* the value the last bool-valued call returned
     params |-> NoParams,     \* the trade parameters
     size |-> Zero,           \* the size calculate_position_size returned
     sp |-> NoParams,         \* the arguments of place_stop_loss_take_profit
     todo |-> <<>>,           \* the orders still to be cancelled by a loop
     reported |-> FALSE,      \* futures_position_information answered a position
     es_reported |-> FALSE,   \* ... to the first query of this execute_strategy
     returned |-> "",         \* the value execute_strategy returned last
     handler |-> "",          \* the GUI handler in progress
     timers |-> 0,            \* pending root.after(3600000, close_position_if_open)
     failed |-> FALSE,        \* an exchange call of on_closing raised (history)
     n |-> 0]                 \* cycles / handlers started so far

\* the locals of a finished call are gone
Forget(l) == [InitLoc EXCEPT !.n = l.n, !.returned = l.returned, !.timers = l.timers]

\* the locals after an exchange call raised
Raised(l) == [l EXCEPT !.failed = (l.handler = "on_closing")]

\* futures_position_information filtered to non-zero amounts
Snapshot ==
    IF ex_pos.amt = Zero THEN <<>>
    ELSE <<[symbol |-> Contract, positionAmt |-> ex_pos.amt,
            entryPrice |-> ex_pos.entryPrice, leverage |-> ex_leverage]>>

\* the exchange's position after a market order of signed quantity qty fills
Fill(pos, qty, price) ==
    LET amt == RAdd(pos.amt, qty)
        same == \/ RLt(Zero, pos.amt) /\ RLt(Zero, qty)
                \/ RLt(pos.amt, Zero) /\ RLt(qty, Zero)
        flipped == \/ RLt(Zero, pos.amt) /\ RLt(amt, Zero)
                   \/ RLt(pos.amt, Zero) /\ RLt(Zero, amt)
    IN  [amt |-> amt,
         entryPrice |->
            IF amt = Zero THEN Zero
            ELSE IF pos.amt = Zero \/ flipped THEN price
            ELSE IF same
            THEN RDiv(RAdd(RMul(RAbs(pos.amt), pos.entryPrice),
                           RMul(RAbs(qty), price)), RAbs(amt))
            ELSE pos.entryPrice]

\* a list of orders as the exchange returns it, oldest first
RECURSIVE OrderList(_)
OrderList(S) ==
    IF S = {} THEN <<>>
    ELSE LET o == CHOOSE x \in S : \A y \in S : x.orderId <= y.orderId
         IN  <<o>> \o OrderList(S \ {o})

IsConditional(o) == o.type \in {"STOP_MARKET", "TAKE_PROFIT_MARKET"}

\* Python's None where a float is expected (an absent order id is 0)
PyNone == <<0, 0>>
Truthy(x) == x # PyNone /\ x # Zero

DictGet(d, key, default) == IF key \in DOMAIN d THEN d[key] ELSE default

NotStored == [stored |-> FALSE]
default_sl_percent == RInt(-2)
default_tp_percent == RInt(5)
price_tolerance == RNorm(1, 10)

\* as Reconcile, the new percentage taken from the expected price instead of
\* the order's price
Mut_Reconcile_FromExpected(stored, pos, orders) ==
    LET lev == RInt(pos.leverage)
        sl_orders == {o \in orders : o.type = "STOP_MARKET"}
        tp_orders == {o \in orders : o.type = "TAKE_PROFIT_MARKET"}
        has_sl == sl_orders # {}
        has_tp == tp_orders # {}
        sl_order == OrderList(sl_orders)[1]
        tp_order == OrderList(tp_orders)[1]
        sl_price == IF has_sl THEN sl_order.stopPrice ELSE PyNone
        tp_price == IF has_tp THEN tp_order.stopPrice ELSE PyNone
        entry_price == pos.entryPrice
        intended_sl_percent == DictGet(stored, "sl_percent", default_sl_percent)
        intended_tp_percent == DictGet(stored, "tp_percent", default_tp_percent)
        long == RLt(Zero, pos.positionAmt)
        Expected(pct) ==
            LET f == RDiv(RDiv(pct, RInt(100)), lev)
            IN  RMul(entry_price, IF long THEN RAdd(One, f) ELSE RSub(One, f))
        Match(price, pct) ==
            price = PyNone \/ RLe(RAbs(RSub(price, Expected(pct))), price_tolerance)
        Recomputed(price) ==
            RMul(RMul(RDiv(RSub(price, entry_price), entry_price), RInt(100)), lev)
        sl_percent == IF Match(sl_price, intended_sl_percent) THEN intended_sl_percent
                      ELSE IF Truthy(sl_price)
                      THEN Recomputed(Expected(intended_sl_percent))
                      ELSE intended_sl_percent
        tp_percent == IF Match(tp_price, intended_tp_percent) THEN intended_tp_percent
                      ELSE IF Truthy(tp_price)
                      THEN Recomputed(Expected(intended_tp_percent))
                      ELSE intended_tp_percent
    IN  IF has_sl \/ has_tp
        THEN [stored |-> TRUE,
              sl_order_id |-> IF has_sl THEN sl_order.orderId ELSE 0,
              tp_order_id |-> IF has_tp THEN tp_order.orderId ELSE 0,
              sl_percent |-> sl_percent, tp_percent |-> tp_percent,
              sl_price |-> sl_price, tp_price |-> tp_price,
              sl_status |-> IF has_sl THEN "open" ELSE "none",
              tp_status |-> IF has_tp THEN "open" ELSE "none",
              leverage |-> pos.leverage]
        ELSE IF ~stored.stored
        THEN [stored |-> TRUE, sl_order_id |-> 0, tp_order_id |-> 0,
              sl_percent |-> default_sl_percent, tp_percent |-> default_tp_percent,
              sl_price |-> PyNone, tp_price |-> PyNone,
              sl_status |-> "none", tp_status |-> "none",
              leverage |-> pos.leverage]
        ELSE stored

\* get_open_positions, lines 48-122, for the position pos: the new value of
\* sl_tp_orders[contract].  (With leverage 1 reported the code asks
\* futures_account for the leverage of the same position.)
Reconcile(stored, pos, orders) ==
    LET lev == RInt(pos.leverage)
        sl_orders == {o \in orders : o.type = "STOP_MARKET"}
        tp_orders == {o \in orders : o.type = "TAKE_PROFIT_MARKET"}
        has_sl == sl_orders # {}
        has_tp == tp_orders # {}
        sl_order == OrderList(sl_orders)[1]
        tp_order == OrderList(tp_orders)[1]
        sl_price == IF has_sl THEN sl_order.stopPrice ELSE PyNone
        tp_price == IF has_tp THEN tp_order.stopPrice ELSE PyNone
        entry_price == pos.entryPrice
        intended_sl_percent == DictGet(stored, "sl_percent", default_sl_percent)
        intended_tp_percent == DictGet(stored, "tp_percent", default_tp_percent)
        long == RLt(Zero, pos.positionAmt)
        Expected(pct) ==
            LET f == RDiv(RDiv(pct, RInt(100)), lev)
            IN  RMul(entry_price, IF long THEN RAdd(One, f) ELSE RSub(One, f))
        Match(price, pct) ==
            price = PyNone \/ RLe(RAbs(RSub(price, Expected(pct))), price_tolerance)
        Recomputed(price) ==
            RMul(RMul(RDiv(RSub(price, entry_price), entry_price), RInt(100)), lev)
        sl_percent == IF Match(sl_price, intended_sl_percent) THEN intended_sl_percent
                      ELSE IF Truthy(sl_price) THEN Recomputed(sl_price)
                      ELSE intended_sl_percent
        tp_percent == IF Match(tp_price, intended_tp_percent) THEN intended_tp_percent
                      ELSE IF Truthy(tp_price) THEN Recomputed(tp_price)
                      ELSE intended_tp_percent
    IN  IF has_sl \/ has_tp
        THEN [stored |-> TRUE,
              sl_order_id |-> IF has_sl THEN sl_order.orderId ELSE 0,
              tp_order_id |-> IF has_tp THEN tp_order.orderId ELSE 0,
              sl_percent |-> sl_percent, tp_percent |-> tp_percent,
              sl_price |-> sl_price, tp_price |-> tp_price,
              sl_status |-> IF has_sl THEN "open" ELSE "none",
              tp_status |-> IF has_tp THEN "open" ELSE "none",
              leverage |-> pos.leverage]
        ELSE IF ~stored.stored
        THEN [stored |-> TRUE, sl_order_id |-> 0, tp_order_id |-> 0,
              sl_percent |-> default_sl_percent, tp_percent |-> default_tp_percent,
              sl_price |-> PyNone, tp_price |-> PyNone,
              sl_status |-> "none", tp_status |-> "none",
              leverage |-> pos.leverage]
        ELSE stored

\* ---- control: the statement a thread is at, calls and returns ----
\* the statements that call nothing outside the thread; they take no time
\* against a call of the exchange, so a thread at one of them moves first
LocalLabels == {"ca_start", "ca_loop", "es_check", "es_traded", "es_position",
                "es_done", "ge_traded", "ge_position", "ge_done", "gt_check",
                "gt_done", "ga_done"}
At(t, label) ==
    /\ pc[t] = label
    /\ label \in LocalLabels \/ \A u \in Threads : pc[u] \notin LocalLabels
otherVars == <<btVars, sigVars, szVars, histVars, mtVars, fnVars>>
Goto(t, label, l) ==
    /\ pc' = [pc EXCEPT ![t] = label]
    /\ loc' = [loc EXCEPT ![t] = l]
    /\ UNCHANGED otherVars
Call(t, label, back, l) ==
    /\ pc' = [pc EXCEPT ![t] = label]
    /\ loc' = [loc EXCEPT ![t] = [l EXCEPT !.ret = <<back>> \o l.ret]]
    /\ UNCHANGED otherVars
Return(t, l) ==
    /\ pc' = [pc EXCEPT ![t] = Head(l.ret)]
    /\ loc' = [loc EXCEPT ![t] = [l EXCEPT !.ret = Tail(l.ret)]]
    /\ UNCHANGED otherVars

\* ---- get_open_positions ----
get_open_positions_position_information(t) ==
    /\ At(t, "gop_positions")
    /\ \/ Goto(t, "gop_orders",
               [loc[t] EXCEPT !.positions = Snapshot, !.reported = Snapshot # <<>>])
       \/ Return(t, [Raised(loc[t]) EXCEPT !.positions = <<>>])
    /\ UNCHANGED <<exVars, sl_tp_orders, stop_event, opens_since_close>>

get_open_positions_open_orders(t) ==
    /\ At(t, "gop_orders")
    /\ \/ /\ sl_tp_orders' = IF loc[t].positions = <<>> THEN sl_tp_orders
                             ELSE Reconcile(sl_tp_orders, loc[t].positions[1], ex_orders)
          /\ Return(t, loc[t])
       \/ /\ Return(t, [Raised(loc[t]) EXCEPT !.positions = <<>>])
          /\ UNCHANGED sl_tp_orders
    /\ UNCHANGED <<exVars, stop_event, opens_since_close>>

\* ---- BinanceFuturesTrader.execute_trade(params) ----
Trader_execute_trade_change_leverage(t) ==
    /\ At(t, "et_leverage")
    /\ \/ /\ ex_leverage' = loc[t].params.leverage
          /\ Goto(t, "et_size", loc[t])
       \/ /\ Return(t, [loc[t] EXCEPT !.ok = FALSE])
          /\ UNCHANGED ex_leverage
    /\ UNCHANGED <<ex_pos, ex_orders, sl_tp_orders, stop_event, opens_since_close>>

\* the answers of the exchange to one calculate_position_size in live mode
LiveTicker == {[ok |-> FALSE, price |-> Zero], [ok |-> TRUE, price |-> MarketPrice]}
LiveBalance == {[ok |-> FALSE, available |-> Zero],
                [ok |-> TRUE, available |-> RInt(initial_balance)]}
LiveInfo == {[ok |-> FALSE, listed |-> FALSE, quantityPrecision |-> 0],
             [ok |-> TRUE, listed |-> TRUE, quantityPrecision |-> 3]}
LiveSizes(params) ==
    {Trader_calculate_position_size(params, tk, b, i) :
        tk \in [1..MaxTickerCalls -> LiveTicker], b \in LiveBalance, i \in LiveInfo}

Trader_execute_trade_size(t) ==
    /\ At(t, "et_size")
    /\ \E r \in LiveSizes(loc[t].params) :
          IF r.ok /\ RLt(Zero, r.size)
          THEN Goto(t, "et_order", [loc[t] EXCEPT !.size = r.size])
          ELSE Return(t, [loc[t] EXCEPT !.ok = FALSE])
    /\ UNCHANGED <<exVars, sl_tp_orders, stop_event, opens_since_close>>

Trader_execute_trade_create_order(t) ==
    /\ At(t, "et_order")
    /\ \/ /\ ex_pos' = Fill(ex_pos,
                            IF loc[t].params.direction = "long" THEN loc[t].size
                            ELSE RNeg(loc[t].size), MarketPrice)
          /\ opens_since_close' = opens_since_close + 1
          /\ Return(t, [loc[t] EXCEPT !.ok = TRUE])
       \/ /\ Return(t, [loc[t] EXCEPT !.ok = FALSE])
          /\ UNCHANGED <<ex_pos, opens_since_close>>
    /\ UNCHANGED <<ex_leverage, ex_orders, sl_tp_orders, stop_event>>

\* ---- close_position(contract, size, '0', 'IOC'); the size is in loc.size ----
close_position_create_order(t) ==
    /\ At(t, "cp_order")
    /\ \/ /\ ex_pos' = Fill(ex_pos,
                            IF RLt(Zero, loc[t].size) THEN RNeg(RAbs(loc[t].size))
                            ELSE RAbs(loc[t].size), MarketPrice)
          /\ opens_since_close' = 0
          /\ Return(t, [loc[t] EXCEPT !.ok = TRUE])
       \/ /\ Return(t, [Raised(loc[t]) EXCEPT !.ok = FALSE])
          /\ UNCHANGED <<ex_pos, opens_since_close>>
    /\ UNCHANGED <<ex_leverage, ex_orders, sl_tp_orders, stop_event>>

\* ---- close_all_positions (one symbol: the loop closes at most one position
\* and returns what close_position returned) ----
close_all_positions_start(t) ==
    /\ At(t, "ca_start")
    /\ Call(t, "gop_positions", "ca_loop", loc[t])
    /\ UNCHANGED <<exVars, sl_tp_orders, stop_event, opens_since_close>>

close_all_positions_loop(t) ==
    /\ At(t, "ca_loop")
    /\ IF loc[t].positions = <<>>
       THEN Return(t, [loc[t] EXCEPT !.ok = TRUE])
       ELSE Goto(t, "cp_order", [loc[t] EXCEPT !.size = loc[t].positions[1].positionAmt])
    /\ UNCHANGED <<exVars, sl_tp_orders, stop_event, opens_since_close>>

\* ---- place_stop_loss_take_profit; its arguments are in loc.sp ----
\* the except clause of lines 404-409
place_stop_loss_take_profit_except(t) ==
    /\ sl_tp_orders' = NotStored
    /\ Return(t, [loc[t] EXCEPT !.ok = FALSE])

\* lines 314-327: up to three fetches while the entry price is not positive, a
\* failed fetch keeping the price
SlTpEntryPrice(entry_price, ticker) ==
    LET Try(p, a) == IF RLe(p, Zero) /\ a.ok THEN a.price ELSE p
    IN  Try(Try(Try(entry_price, ticker[1]), ticker[2]), ticker[3])

\* the two trigger prices of lines 339-350
SlTpPrices(direction, entry_price, sl_percent, tp_percent) ==
    LET f(pct) == RDiv(pct, RInt(100))
    IN  IF direction = "long"
        THEN [sl |-> RMul(entry_price, RAdd(One, f(sl_percent))),
              tp |-> RMul(entry_price, RAdd(One, f(tp_percent)))]
        ELSE [sl |-> RMul(entry_price, RSub(One, f(sl_percent))),
              tp |-> RMul(entry_price, RSub(One, f(tp_percent)))]

\* mutant: the orders are prepared whether or not a position is reported
Mut_place_stop_loss_take_profit_NoPositionCheck(t) ==
    /\ At(t, "sp_position")
    /\ LET a == loc[t].sp
           prices == SlTpPrices(a.direction, a.entry_price, a.sl_percent, a.tp_percent)
       IN  /\ sl_tp_orders' = [stored |-> TRUE, stop_loss |-> a.sl_percent,
                               take_profit |-> a.tp_percent, leverage |-> a.leverage]
           /\ Goto(t, "sp_info",
                   [loc[t] EXCEPT !.sp =
                      [a EXCEPT !.position_amt = IF Snapshot = <<>> THEN Zero
                                                 ELSE Snapshot[1].positionAmt,
                                !.sl_price = prices.sl, !.tp_price = prices.tp]])
    /\ UNCHANGED <<exVars, stop_event, opens_since_close>>

place_stop_loss_take_profit_position_information(t) ==
    /\ At(t, "sp_position")
    /\ \/ IF Snapshot = <<>>
          THEN place_stop_loss_take_profit_except(t)
          ELSE \E ticker \in [1..3 -> LiveTicker] :
                 LET a == loc[t].sp
                     entry_price == SlTpEntryPrice(a.entry_price, ticker)
                     prices == SlTpPrices(a.direction, entry_price,
                                          a.sl_percent, a.tp_percent)
                 IN  IF RLe(entry_price, Zero)
                     THEN place_stop_loss_take_profit_except(t)
                     ELSE /\ sl_tp_orders' = [stored |-> TRUE,
                                              stop_loss |-> a.sl_percent,
                                              take_profit |-> a.tp_percent,
                                              leverage |-> a.leverage]
                          /\ Goto(t, "sp_info",
                                  [loc[t] EXCEPT !.sp =
                                     [a EXCEPT !.position_amt = Snapshot[1].positionAmt,
                                               !.size = RAbs(Snapshot[1].positionAmt),
                                               !.entry_price = entry_price,
                                               !.sl_price = prices.sl,
                                               !.tp_price = prices.tp]])
       \/ place_stop_loss_take_profit_except(t)
    /\ UNCHANGED <<exVars, stop_event, opens_since_close>>

place_stop_loss_take_profit_exchange_info(t) ==
    /\ At(t, "sp_info")
    /\ \/ /\ \E i \in {i \in LiveInfo : i.ok} :
                Goto(t, "sp_list",
                     [loc[t] EXCEPT !.sp =
                        [@ EXCEPT !.sl_price = PyRound(@, 2),
                                  !.tp_price = PyRound(@, 2),
                                  !.size = PyRound(@, i.quantityPrecision)]])
          /\ UNCHANGED sl_tp_orders
       \/ place_stop_loss_take_profit_except(t)
    /\ UNCHANGED <<exVars, stop_event, opens_since_close>>

place_stop_loss_take_profit_open_orders(t) ==
    /\ At(t, "sp_list")
    /\ \/ /\ LET todo == OrderList({o \in ex_orders : IsConditional(o)})
             IN  Goto(t, IF todo = <<>> THEN "sp_sl" ELSE "sp_cancel",
                      [loc[t] EXCEPT !.todo = todo])
          /\ UNCHANGED sl_tp_orders
       \/ place_stop_loss_take_profit_except(t)
    /\ UNCHANGED <<exVars, stop_event, opens_since_close>>

place_stop_loss_take_profit_cancel_order(t) ==
    /\ At(t, "sp_cancel")
    /\ \/ /\ Head(loc[t].todo) \in ex_orders
          /\ ex_orders' = ex_orders \ {Head(loc[t].todo)}
          /\ Goto(t, IF Len(loc[t].todo) = 1 THEN "sp_sl" ELSE "sp_cancel",
                  [loc[t] EXCEPT !.todo = Tail(@)])
          /\ UNCHANGED sl_tp_orders
       \/ /\ place_stop_loss_take_profit_except(t)
          /\ UNCHANGED ex_orders
    /\ UNCHANGED <<ex_pos, ex_leverage, stop_event, opens_since_close>>

\* the id of a new order: one that no order listed, remembered or stored has
OrderIdsInUse ==
    {o.orderId : o \in ex_orders}
      \cup UNION {{loc[t].todo[i].orderId : i \in 1..Len(loc[t].todo)} : t \in Threads}
      \cup {DictGet(sl_tp_orders, "sl_order_id", 0), DictGet(sl_tp_orders, "tp_order_id", 0)}
NewOrderId == CHOOSE i \in 1..(Cardinality(OrderIdsInUse) + 1) :
                 /\ i \notin OrderIdsInUse
                 /\ \A j \in 1..(i - 1) : j \in OrderIdsInUse

ConditionalOrder(type, a, price) ==
    [orderId |-> NewOrderId, type |-> type,
     side |-> IF a.direction = "long" THEN "SELL" ELSE "BUY",
     stopPrice |-> price, quantity |-> a.size]

place_stop_loss_take_profit_stop_loss(t) ==
    /\ At(t, "sp_sl")
    /\ \/ /\ ex_orders' = ex_orders \cup
                 {ConditionalOrder("STOP_MARKET", loc[t].sp, loc[t].sp.sl_price)}
          /\ Goto(t, "sp_tp", loc[t])
          /\ UNCHANGED sl_tp_orders
       \/ /\ place_stop_loss_take_profit_except(t)
          /\ UNCHANGED ex_orders
    /\ UNCHANGED <<ex_pos, ex_leverage, stop_event, opens_since_close>>

place_stop_loss_take_profit_take_profit(t) ==
    /\ At(t, "sp_tp")
    /\ \/ /\ ex_orders' = ex_orders \cup
                 {ConditionalOrder("TAKE_PROFIT_MARKET", loc[t].sp, loc[t].sp.tp_price)}
          /\ Return(t, [loc[t] EXCEPT !.ok = TRUE])
          /\ UNCHANGED sl_tp_orders
       \/ /\ place_stop_loss_take_profit_except(t)
          /\ UNCHANGED ex_orders
    /\ UNCHANGED <<ex_pos, ex_leverage, stop_event, opens_since_close>>

SlTpArgs(direction, entry_price, size, sl_percent, tp_percent, lev) ==
    [direction |-> direction, entry_price |-> entry_price, size |-> size,
     sl_percent |-> sl_percent, tp_percent |-> tp_percent, leverage |-> lev,
     sl_price |-> PyNone, tp_price |-> PyNone, position_amt |-> Zero,
     \* history: the conditional orders on the exchange when the call starts
     before |-> {o \in ex_orders : IsConditional(o)}]

\* mutant: the while test does not look at the event
Mut_strategy_loop_while_IgnoresEvent(t) ==
    /\ t = "strategy" /\ At(t, "loop")
    /\ loc[t].n < MaxCycles
    /\ Call(t, "gop_positions", "es_check",
            [Forget(loc[t]) EXCEPT !.n = loc[t].n + 1, !.returned = ""])
    /\ UNCHANGED <<exVars, sl_tp_orders, stop_event, opens_since_close>>

\* ---- strategy_loop and execute_strategy (the strategy thread) ----
\* the while test of strategy_loop and, the event not being set, the call of
\* execute_strategy up to its first exchange call
strategy_loop_while(t) ==
    /\ t = "strategy" /\ At(t, "loop")
    /\ \/ /\ stop_event
          /\ Goto(t, "stopped", loc[t])
       \/ /\ ~stop_event
          /\ loc[t].n < MaxCycles
          /\ Call(t, "gop_positions", "es_check",
                  [Forget(loc[t]) EXCEPT !.n = loc[t].n + 1, !.returned = ""])
    /\ UNCHANGED <<exVars, sl_tp_orders, stop_event, opens_since_close>>

\* the wait between two cycles, left when it is over or the event is set
strategy_loop_wait(t) ==
    /\ At(t, "wait")
    /\ Goto(t, "loop", loc[t])
    /\ UNCHANGED <<exVars, sl_tp_orders, stop_event, opens_since_close>>

\* execute_strategy returns value to strategy_loop
StrategyReturns(t, value) ==
    Goto(t, "wait", [Forget(loc[t]) EXCEPT !.returned = value])

execute_strategy_has_position(t) ==
    /\ At(t, "es_check")
    /\ LET has_position == \E i \in 1..Len(loc[t].positions) :
                              /\ loc[t].positions[i].symbol = Contract
                              /\ loc[t].positions[i].positionAmt # Zero
       IN  IF has_position
           THEN StrategyReturns(t, "False")
           ELSE Goto(t, "es_signal", [loc[t] EXCEPT !.es_reported = loc[t].reported])
    /\ UNCHANGED <<exVars, sl_tp_orders, stop_event, opens_since_close>>

\* what the klines call and calculate_rsi give check_strategy_conditions
LiveReadings ==
    {[klines_ok |-> FALSE, rsi_ok |-> FALSE, rsi |-> NaN],
     [klines_ok |-> TRUE, rsi_ok |-> FALSE, rsi |-> NaN],
     [klines_ok |-> TRUE, rsi_ok |-> TRUE, rsi |-> RInt(30)],
     [klines_ok |-> TRUE, rsi_ok |-> TRUE, rsi |-> RInt(50)],
     [klines_ok |-> TRUE, rsi_ok |-> TRUE, rsi |-> RInt(70)]}

execute_strategy_signal(t) ==
    /\ At(t, "es_signal")
    /\ \E rd \in LiveReadings :
          LET signal == check_strategy_conditions(rd.klines_ok, rd.rsi_ok, rd.rsi)
          IN  IF signal = NoSignal
              THEN StrategyReturns(t, "False")
              ELSE Call(t, "et_leverage", "es_traded",
                        [loc[t] EXCEPT !.params =
                           [contract |-> Contract, direction |-> signal.signal,
                            price |-> "0", leverage |-> 25,
                            risk_percentage |-> RNorm(20, 100), tif |-> "GTC"]])
    /\ UNCHANGED <<exVars, sl_tp_orders, stop_event, opens_since_close>>

\* mutant: the outcome of execute_trade is not looked at
Mut_execute_strategy_traded_IgnoresFailure(t) ==
    /\ At(t, "es_traded")
    /\ Call(t, "gop_positions", "es_position", loc[t])
    /\ UNCHANGED <<exVars, sl_tp_orders, stop_event, opens_since_close>>

execute_strategy_traded(t) ==
    /\ At(t, "es_traded")
    /\ IF ~loc[t].ok
       THEN StrategyReturns(t, "False")
       ELSE Call(t, "gop_positions", "es_position", loc[t])
    /\ UNCHANGED <<exVars, sl_tp_orders, stop_event, opens_since_close>>

execute_strategy_position(t) ==
    /\ At(t, "es_position")
    /\ IF loc[t].positions = <<>>
       THEN StrategyReturns(t, "False")
       ELSE LET position == loc[t].positions[1]
            IN  Call(t, "sp_position", "es_done",
                     [loc[t] EXCEPT !.sp =
                        SlTpArgs(loc[t].params.direction, position.entryPrice,
                                 RAbs(position.positionAmt), RInt(-5), RInt(5), 25)])
    /\ UNCHANGED <<exVars, sl_tp_orders, stop_event, opens_since_close>>

\* lines 592-600: the value of place_stop_loss_take_profit is not looked at
execute_strategy_done(t) ==
    /\ At(t, "es_done")
    /\ StrategyReturns(t, "True")
    /\ UNCHANGED <<exVars, sl_tp_orders, stop_event, opens_since_close>>

\* ---- the GUI thread: button handlers and timers of TradingGUI ----
GuiIdle(t) == t = "gui" /\ At(t, "idle")
GuiDone(t) == Goto(t, "idle", Forget(loc[t]))
liveFrame == <<exVars, sl_tp_orders, stop_event, opens_since_close>>

\* TradingGUI.execute_trade with parameters that validate_trade_params accepts
GUI_execute_trade_start(t) ==
    /\ GuiIdle(t) /\ loc[t].n < MaxGuiOps
    /\ \E direction \in {"long", "short"} :
          Call(t, "et_leverage", "ge_traded",
               [loc[t] EXCEPT !.n = @ + 1, !.handler = "execute_trade",
                    !.params =
                       [contract |-> Contract, direction |-> direction,
                        price |-> "0.0", leverage |-> 25,
                        risk_percentage |-> RNorm(20, 100), tif |-> "GTC",
                        stop_loss |-> RInt(-5), take_profit |-> RInt(5)]])
    /\ UNCHANGED liveFrame

GUI_execute_trade_traded(t) ==
    /\ At(t, "ge_traded")
    /\ IF loc[t].ok THEN Goto(t, "ge_size", loc[t]) ELSE GuiDone(t)
    /\ UNCHANGED liveFrame

\* line 1106; an error raised by calculate_position_size ends the handler
GUI_execute_trade_size(t) ==
    /\ At(t, "ge_size")
    /\ \E r \in LiveSizes(loc[t].params) :
          IF r.ok /\ RLt(Zero, r.size)
          THEN Call(t, "gop_positions", "ge_position", [loc[t] EXCEPT !.size = r.size])
          ELSE GuiDone(t)
    /\ UNCHANGED liveFrame

GUI_execute_trade_position(t) ==
    /\ At(t, "ge_position")
    /\ IF loc[t].positions = <<>>
       THEN GuiDone(t)
       ELSE Call(t, "sp_position", "ge_done",
                 [loc[t] EXCEPT !.sp =
                    SlTpArgs(loc[t].params.direction, loc[t].positions[1].entryPrice,
                             loc[t].size, loc[t].params.stop_loss,
                             loc[t].params.take_profit, loc[t].params.leverage)])
    /\ UNCHANGED liveFrame

\* lines 1128-1140: on success the close after one hour is scheduled
GUI_execute_trade_done(t) ==
    /\ At(t, "ge_done")
    /\ Goto(t, "idle", [Forget(loc[t]) EXCEPT !.timers =
                            IF loc[t].ok THEN @ + 1 ELSE @])
    /\ UNCHANGED liveFrame

\* TradingGUI.close_position_if_open, run by the timer
GUI_close_position_if_open_start(t) ==
    /\ GuiIdle(t) /\ loc[t].timers > 0
    /\ Call(t, "gop_positions", "gt_check",
            [loc[t] EXCEPT !.timers = @ - 1, !.handler = "close_position_if_open"])
    /\ UNCHANGED liveFrame

GUI_close_position_if_open_check(t) ==
    /\ At(t, "gt_check")
    /\ IF loc[t].positions = <<>>
       THEN GuiDone(t)
       ELSE Call(t, "cp_order", "gt_done",
                 [loc[t] EXCEPT !.size = loc[t].positions[1].positionAmt])
    /\ UNCHANGED liveFrame

GUI_close_position_if_open_done(t) ==
    /\ At(t, "gt_done")
    /\ GuiDone(t)
    /\ UNCHANGED liveFrame

\* the rows TradingGUI.update_positions shows: the non-zero positions, the
\* amount with four decimals
PositionRows ==
    [i \in 1..Len(Snapshot) |->
        [symbol |-> Snapshot[i].symbol,
         pos_amt |-> PyRound(Snapshot[i].positionAmt, 4)]]

\* TradingGUI.close_single_position(symbol, size) for the Close button of a
\* row of the list, the list showing the exchange's positions of that moment
GUI_close_single_position_start(t) ==
    /\ GuiIdle(t) /\ loc[t].n < MaxGuiOps
    /\ PositionRows # <<>>
    /\ Goto(t, "gc_list",
            [loc[t] EXCEPT !.n = @ + 1, !.handler = "close_single_position",
                           !.size = PositionRows[1].pos_amt])
    /\ UNCHANGED liveFrame

GUI_close_single_position_open_orders(t) ==
    /\ At(t, "gc_list")
    /\ \/ LET todo == OrderList({o \in ex_orders : IsConditional(o)})
          IN  IF todo = <<>>
              THEN Call(t, "cp_order", "gc_closed", loc[t])
              ELSE Goto(t, "gc_cancel", [loc[t] EXCEPT !.todo = todo])
       \/ Call(t, "cp_order", "gc_closed", loc[t])
    /\ UNCHANGED liveFrame

GUI_close_single_position_cancel_order(t) ==
    /\ At(t, "gc_cancel")
    /\ \/ /\ Head(loc[t].todo) \in ex_orders
          /\ ex_orders' = ex_orders \ {Head(loc[t].todo)}
          /\ IF Len(loc[t].todo) = 1
             THEN Call(t, "cp_order", "gc_closed", [loc[t] EXCEPT !.todo = <<>>])
             ELSE Goto(t, "gc_cancel", [loc[t] EXCEPT !.todo = Tail(@)])
       \/ /\ Call(t, "cp_order", "gc_closed", [loc[t] EXCEPT !.todo = <<>>])
          /\ UNCHANGED ex_orders
    /\ UNCHANGED <<ex_pos, ex_leverage, sl_tp_orders, stop_event, opens_since_close>>

GUI_close_single_position_closed(t) ==
    /\ At(t, "gc_closed")
    /\ sl_tp_orders' = IF loc[t].ok THEN NotStored ELSE sl_tp_orders
    /\ GuiDone(t)
    /\ UNCHANGED <<exVars, stop_event, opens_since_close>>

\* TradingGUI.close_all_positions
GUI_close_all_positions_start(t) ==
    /\ GuiIdle(t) /\ loc[t].n < MaxGuiOps
    /\ Call(t, "ca_start", "ga_done",
            [loc[t] EXCEPT !.n = @ + 1, !.handler = "close_all_positions"])
    /\ UNCHANGED liveFrame

GUI_close_all_positions_done(t) ==
    /\ At(t, "ga_done")
    /\ GuiDone(t)
    /\ UNCHANGED liveFrame

\* ---- on_closing of main(): set the event, join the strategy thread for at
\* most five seconds, then trader.cleanup() ----
on_closing(t) ==
    /\ GuiIdle(t)
    /\ stop_event' = TRUE
    /\ Call(t, "ca_start", "cl_orders",
            [loc[t] EXCEPT !.handler = "on_closing", !.failed = FALSE])
    /\ UNCHANGED <<exVars, sl_tp_orders, opens_since_close>>

\* the locals when on_closing is over
Closed(l) == [Forget(l) EXCEPT !.failed = l.failed]

cleanup_open_orders(t) ==
    /\ At(t, "cl_orders")
    /\ \/ LET todo == OrderList(ex_orders)
          IN  IF todo = <<>>
              THEN Goto(t, "closed", Closed(loc[t]))
              ELSE Goto(t, "cl_cancel", [loc[t] EXCEPT !.todo = todo])
       \/ Goto(t, "closed", Closed(Raised(loc[t])))
    /\ UNCHANGED liveFrame

cleanup_cancel_order(t) ==
    /\ At(t, "cl_cancel")
    /\ \/ /\ Head(loc[t].todo) \in ex_orders
          /\ ex_orders' = ex_orders \ {Head(loc[t].todo)}
          /\ IF Len(loc[t].todo) = 1
             THEN Goto(t, "closed", Closed(loc[t]))
             ELSE Goto(t, "cl_cancel", [loc[t] EXCEPT !.todo = Tail(@)])
       \/ /\ Goto(t, "closed", Closed(Raised(loc[t])))
          /\ UNCHANGED ex_orders
    /\ UNCHANGED <<ex_pos, ex_leverage, sl_tp_orders, stop_event, opens_since_close>>

LiveStep(t) ==
    \/ get_open_positions_position_information(t)
    \/ get_open_positions_open_orders(t)
    \/ Trader_execute_trade_change_leverage(t)
    \/ Trader_execute_trade_size(t)
    \/ Trader_execute_trade_create_order(t)
    \/ close_position_create_order(t)
    \/ close_all_positions_start(t)
    \/ close_all_positions_loop(t)
    \/ place_stop_loss_take_profit_position_information(t)
    \/ place_stop_loss_take_profit_exchange_info(t)
    \/ place_stop_loss_take_profit_open_orders(t)
    \/ place_stop_loss_take_profit_cancel_order(t)
    \/ place_stop_loss_take_profit_stop_loss(t)
    \/ place_stop_loss_take_profit_take_profit(t)
    \/ strategy_loop_while(t)
    \/ strategy_loop_wait(t)
    \/ execute_strategy_has_position(t)
    \/ execute_strategy_signal(t)
    \/ execute_strategy_traded(t)
    \/ execute_strategy_position(t)
    \/ execute_strategy_done(t)
    \/ GUI_execute_trade_start(t)
    \/ GUI_execute_trade_traded(t)
    \/ GUI_execute_trade_size(t)
    \/ GUI_execute_trade_position(t)
    \/ GUI_execute_trade_done(t)
    \/ GUI_close_position_if_open_start(t)
    \/ GUI_close_position_if_open_check(t)
    \/ GUI_close_position_if_open_done(t)
    \/ GUI_close_single_position_start(t)
    \/ GUI_close_single_position_open_orders(t)
    \/ GUI_close_single_position_cancel_order(t)
    \/ GUI_close_single_position_closed(t)
    \/ GUI_close_all_positions_start(t)
    \/ GUI_close_all_positions_done(t)
    \/ on_closing(t)
    \/ cleanup_open_orders(t)
    \/ cleanup_cancel_order(t)

LiveNext == \E t \in Threads : LiveStep(t)

(***************************************************************************)
(* Claims about live mode                                                  *)
(***************************************************************************)
\* the strategy thread is inside execute_strategy
StrategyInFlight == pc["strategy"] \notin {"loop", "wait", "stopped"}
\* the GUI thread is inside a handler that opens or closes a position
GuiMutationInFlight ==
    loc["gui"].handler \in {"execute_trade", "close_single_position",
                            "close_all_positions"}

\* C2: execute_strategy of the strategy thread and a GUI-initiated open or
\* close are never in flight at the same time, and two opening orders are
\* never filled without a closing order between them.
C2_MutualExclusion ==
    /\ ~(StrategyInFlight /\ GuiMutationInFlight)
    /\ opens_since_close <= 1

\* C3: in a cycle whose position query was answered with a non-zero amount
\* for the contract, execute_strategy evaluates no strategy condition and
\* reaches no order call.
C3_NoOrderWhenPositionReported ==
    pc["strategy"] \in {"es_signal", "et_leverage", "et_size", "et_order"}
        => ~loc["strategy"].es_reported

\* C15: when the opening order call of execute_strategy's execute_trade fails,
\* execute_trade returns False and execute_strategy returns False in the same
\* cycle, with no conditional order placed and the stored SL/TP entry untouched.
C15_OrderFailureReturnsFalse ==
    [][ LET t == "strategy"
        IN  /\ (pc[t] = "et_order" /\ pc'[t] # "et_order" /\ ~loc'[t].ok) =>
                  /\ pc'[t] = "es_traded"
                  /\ UNCHANGED <<ex_pos, ex_orders, sl_tp_orders>>
            /\ (pc[t] = "es_traded" /\ ~loc[t].ok /\ pc'[t] # "es_traded") =>
                  /\ pc'[t] = "wait" /\ loc'[t].returned = "False"
                  /\ UNCHANGED <<ex_pos, ex_orders, sl_tp_orders>>
      ]_vars

\* C15 witness: execute_trade has come back False to execute_strategy after a
\* positive size was computed, that is, from the failed order call
C15_Witness ==
    /\ pc["strategy"] = "es_traded"
    /\ ~loc["strategy"].ok /\ RLt(Zero, loc["strategy"].size)

\* C16: execute_strategy never returns True while the position it opened
\* has no stop-loss and no take-profit order on the exchange.
C16_NoTrueWithoutProtection ==
    [][ LET t == "strategy"
        IN  (pc[t] = "es_done" /\ pc'[t] = "wait" /\ loc'[t].returned = "True"
             /\ ex_pos.amt # Zero) =>
                \E o \in ex_orders : IsConditional(o)
      ]_vars

\* C17: every creation of a STOP_MARKET or TAKE_PROFIT_MARKET order is
\* preceded, in the same place_stop_loss_take_profit, by a position query that
\* returned a non-zero positionAmt; when the query reports no position the
\* call ends with False and no conditional order is created.
PlacingLabels == {"sp_info", "sp_list", "sp_cancel", "sp_sl", "sp_tp"}
C17_PositionBeforeConditional ==
    [][ /\ (\E o \in ex_orders' \ ex_orders : IsConditional(o)) =>
              \E t \in Threads :
                  /\ pc[t] \in {"sp_sl", "sp_tp"} /\ pc'[t] # pc[t]
                  /\ loc[t].sp.position_amt # Zero
        /\ \A t \in Threads :
              /\ pc'[t] \in PlacingLabels => loc'[t].sp.position_amt # Zero
              /\ (pc[t] = "sp_position" /\ pc'[t] # "sp_position" /\ Snapshot = <<>>) =>
                    /\ pc'[t] = Head(loc[t].ret) /\ ~loc'[t].ok
                    /\ UNCHANGED ex_orders
      ]_vars

\* C17 witness: a stop-loss order stands on the exchange, created by a thread
\* whose position query returned a position, and the thread is about to create
\* the take-profit order
C17_Witness ==
    \E t \in Threads :
        /\ pc[t] = "sp_tp" /\ loc[t].sp.position_amt # Zero
        /\ \E o \in ex_orders : o.type = "STOP_MARKET" /\ o.quantity = loc[t].sp.size

\* C18: when on_closing finishes and every exchange call it made succeeded,
\* the exchange holds no open position and no working order, whatever the
\* strategy thread did meanwhile.
C18_FlatAfterShutdown ==
    [][ (pc["gui"] # "closed" /\ pc'["gui"] = "closed" /\ ~loc'["gui"].failed) =>
            /\ ex_pos'.amt = Zero
            /\ ex_orders' = {}
      ]_vars

\* C19: once the stop event is set, strategy_loop starts no execute_strategy
\* after its while test has seen the event, and the thread eventually ends:
\* every exchange call in progress returns, the wait is left, and the loop
\* is left at its next test.
C19_StopsAfterEvent ==
    /\ [][ (stop_event /\ pc["strategy"] = "loop" /\ pc'["strategy"] # "loop") =>
               pc'["strategy"] = "stopped" ]_vars
    /\ (stop_event ~> (pc["strategy"] = "stopped"))

\* C19 witness: the loop has ended after the event was set, having run
\* execute_strategy and its wait before
C19_Witness ==
    /\ stop_event /\ pc["strategy"] = "stopped"
    /\ loc["strategy"].n > 0 /\ loc["strategy"].returned # ""

\* the price get_open_positions expects for a percentage (lines 76-81)
ExpectedPrice(pos, pct) ==
    LET f == RDiv(RDiv(pct, RInt(100)), RInt(pos.leverage))
    IN  RMul(pos.entryPrice, IF RLt(Zero, pos.positionAmt) THEN RAdd(One, f) ELSE RSub(One, f))

\* a step of get_open_positions that rewrites the stored entry from the orders
\* found on the exchange
ReconciledBy(t) ==
    /\ pc[t] = "gop_orders" /\ pc'[t] # "gop_orders"
    /\ loc[t].positions # <<>>
    /\ sl_tp_orders' # sl_tp_orders
    /\ sl_tp_orders'.stored /\ sl_tp_orders'.sl_status = "open"

\* C13: get_open_positions keeps the stored stop-loss percentage when the
\* order's price is within 0.1 of the price expected from it, and otherwise
\* stores a percentage whose expected price is the order's price, for long
\* and for short positions.
C13_ReconcileRoundTrip ==
    [][ \A t \in Threads : ReconciledBy(t) =>
          LET pos == loc[t].positions[1]
              intended == DictGet(sl_tp_orders, "sl_percent", default_sl_percent)
              actual == sl_tp_orders'.sl_price
              within == RLe(RAbs(RSub(actual, ExpectedPrice(pos, intended))), price_tolerance)
          IN  IF within THEN sl_tp_orders'.sl_percent = intended
              ELSE ExpectedPrice(pos, sl_tp_orders'.sl_percent) = actual
      ]_vars

\* C14: every stored stop-loss percentage is strictly negative and every
\* stored take-profit percentage strictly positive, also after a
\* recomputation from the orders on the exchange.
C14_StoredSigns ==
    (sl_tp_orders.stored /\ "sl_percent" \in DOMAIN sl_tp_orders) =>
        /\ RLt(sl_tp_orders.sl_percent, Zero)
        /\ RLt(Zero, sl_tp_orders.tp_percent)

\* the exchange holds exactly the two conditional orders that
\* place_stop_loss_take_profit creates for the position pos from the
\* percentages it recorded, and no other write to sl_tp_orders came after
PlacedIntact(pos) ==
    /\ sl_tp_orders.stored /\ "stop_loss" \in DOMAIN sl_tp_orders
    /\ LET prices == SlTpPrices(IF RLt(Zero, pos.positionAmt) THEN "long" ELSE "short",
                                pos.entryPrice, sl_tp_orders.stop_loss,
                                sl_tp_orders.take_profit)
       IN  {<<o.type, o.stopPrice>> : o \in ex_orders} =
               {<<"STOP_MARKET", PyRound(prices.sl, 2)>>,
                <<"TAKE_PROFIT_MARKET", PyRound(prices.tp, 2)>>}

\* C29: when get_open_positions runs on the orders of a successful
\* place_stop_loss_take_profit, the percentages it stores are the placed
\* sl and tp, whatever the leverage and the direction
C29_PlacedIsConfirmed ==
    [][ \A t \in Threads :
          (/\ pc[t] = "gop_orders" /\ pc'[t] # "gop_orders"
           /\ loc[t].positions # <<>>
           /\ sl_tp_orders' # sl_tp_orders
           /\ PlacedIntact(loc[t].positions[1])) =>
              /\ sl_tp_orders'.sl_percent = sl_tp_orders.stop_loss
              /\ sl_tp_orders'.tp_percent = sl_tp_orders.take_profit
      ]_vars

\* C30: a second get_open_positions over the same positions and orders
\* leaves every entry of sl_tp_orders as the first one left it
C30_ReconcileIdempotent ==
    [][ \A t \in Threads :
          (/\ pc[t] = "gop_orders" /\ pc'[t] # "gop_orders"
           /\ loc[t].positions # <<>> /\ loc'[t].positions # <<>>) =>
              Reconcile(sl_tp_orders', loc[t].positions[1], ex_orders') = sl_tp_orders'
      ]_vars

\* a short whose stop order is not where the stored percentage puts it:
\* get_open_positions has stored the recomputed +125 for the stop at 105
C30_Witness ==
    /\ RLt(ex_pos.amt, Zero)
    /\ sl_tp_orders.stored /\ "sl_percent" \in DOMAIN sl_tp_orders
    /\ sl_tp_orders.sl_status = "open"
    /\ sl_tp_orders.sl_price = RInt(105)
    /\ sl_tp_orders.sl_percent = RInt(125)

\* a step of the GUI thread
GuiStepped == pc'["gui"] # pc["gui"] \/ loc'["gui"] # loc["gui"]

\* C35: cleanup cancels no stop-loss or take-profit order of a position that
\* stays open: when the closing order of its close_all_positions has failed,
\* the conditional orders of the position are on the exchange after every
\* cancel step of cleanup.
C35_CleanupKeepsProtection ==
    [][ (pc["gui"] = "cl_cancel" /\ GuiStepped
         /\ ~loc["gui"].ok /\ ex_pos.amt # Zero) =>
            \A o \in ex_orders : IsConditional(o) => o \in ex_orders'
      ]_vars

\* C36: a place_stop_loss_take_profit that returns False leaves the
\* conditional orders of the contract as they were when it was called: a
\* position that had a stop-loss and a take-profit order still has both.
C36_FailedPlacementKeepsOrders ==
    [][ \A t \in Threads :
          (pc[t] \in {"sp_position"} \cup PlacingLabels
           /\ pc'[t] = Head(loc[t].ret) /\ ~loc'[t].ok) =>
              {o \in ex_orders' : IsConditional(o)} = loc[t].sp.before
      ]_vars


(***************************************************************************)
(* TradingGUI.update_signal_history (gui.py 1046-1062).  The calls run one  *)
(* after the other in the GUI's main thread; the clock is read once per     *)
(* call and does not run backwards between calls.                           *)
(***************************************************************************)
cooldown_seconds == 300
history_limit == 100

\* mutant: every signal other than "NO SIGNAL" is recorded
Mut_Actioned_NoCooldown(signal, prev, prev_time, now) == signal # "NO SIGNAL"

\* lines 1052-1055: the two nested conditions
Actioned(signal, prev, prev_time, now) ==
    /\ signal # "NO SIGNAL"
    /\ \/ signal # prev
       \/ prev_time = <<>>
       \/ now - prev_time[1] >= cooldown_seconds

MaxObservations == 4
GuiSignals == {"BUY", "SELL", "NO SIGNAL"}
Elapsed == {60, 239, 240, 340}

update_signal_history ==
    /\ observations < MaxObservations
    /\ observations' = observations + 1
    /\ \E signal \in GuiSignals, d \in Elapsed :
         LET now == current_time + d
         IN  /\ current_time' = now
             /\ observed' = signal
             /\ IF Actioned(signal, prev_signal, prev_signal_time, now)
                THEN LET appended == Append(signal_history, <<now, signal>>)
                     IN  /\ signal_history' = IF Len(appended) > history_limit
                                              THEN Tail(appended) ELSE appended
                         /\ prev_signal' = signal
                         /\ prev_signal_time' = <<now>>
                ELSE UNCHANGED <<signal_history, prev_signal, prev_signal_time>>

HistNext == update_signal_history /\ UNCHANGED <<btVars, sigVars, szVars, liveVars, mtVars, fnVars>>

\* C12: a signal other than "NO SIGNAL" becomes the new previous signal only
\* if it differs from the previously actioned signal or at least 300 s have
\* passed since; so two consecutive actioned signals of the same direction are
\* at least 300 s apart, and of three BUY observations at 0 s, 60 s and 400 s
\* the first and the third are actioned.
C12_ActionedNow ==
    /\ signal_history' # signal_history
    /\ prev_signal' = observed' /\ prev_signal_time' = <<current_time'>>
C12_Cooldown ==
    [][ /\ observations' = observations + 1 =>
              /\ C12_ActionedNow =>
                    /\ observed' # "NO SIGNAL"
                    /\ \/ observed' # prev_signal
                       \/ prev_signal_time = <<>>
                       \/ current_time' - prev_signal_time[1] >= 300
              /\ ~C12_ActionedNow => UNCHANGED <<signal_history, prev_signal, prev_signal_time>>
        /\ \A k \in 1..(Len(signal_history') - 1) :
              signal_history'[k][2] = signal_history'[k + 1][2] =>
                  signal_history'[k + 1][1] - signal_history'[k][1] >= 300
        /\ (/\ observations = 2 /\ observations' = 3
            /\ signal_history = <<<<60, "BUY">>>> /\ current_time = 120
            /\ observed = "BUY" /\ observed' = "BUY" /\ current_time' = 460) =>
              signal_history' = <<<<60, "BUY">>, <<460, "BUY">>>>
      ]_vars

\* C12 witness: of three BUY observations at 60 s, 120 s and 460 s the first
\* and the third are in the history, and the second is not
C12_Witness ==
    /\ observations = 3 /\ observed = "BUY" /\ current_time = 460
    /\ signal_history = <<<<60, "BUY">>, <<460, "BUY">>>>

(***************************************************************************)
(* Backtester.calculate_metrics (backtest.py 287-358).  A trade is its pnl; *)
(* a formatted amount is the number rounded to two places.                  *)
(***************************************************************************)
\* mutant: the fall measured against the balance, not against the peak
Mut_Drawdown_OfBalance(peak_balance, running_balance) ==
    RMul(RDiv(RSub(peak_balance, running_balance), running_balance), RInt(100))

\* line 317
Drawdown(peak_balance, running_balance) ==
    RMul(RDiv(RSub(peak_balance, running_balance), peak_balance), RInt(100))

\* lines 297-306: the locals before the loop
MetricsStart ==
    [running_balance |-> RInt(initial_balance),
     peak_balance |-> RInt(initial_balance),
     max_drawdown |-> Zero, total_wins |-> Zero, win_count |-> 0,
     total_losses |-> Zero, loss_count |-> 0]

\* lines 308-327: the loop over the trades, from the locals acc
RECURSIVE MetricsLoop(_, _, _)
MetricsLoop(log, k, acc) ==
    IF k > Len(log) THEN acc
    ELSE
      LET pnl == log[k]
          running_balance == RAdd(acc.running_balance, pnl)
          rising == RLt(acc.peak_balance, running_balance)
          drawdown == Drawdown(acc.peak_balance, running_balance)
          win == RLt(Zero, pnl)
      IN  MetricsLoop(log, k + 1,
            [running_balance |-> running_balance,
             peak_balance |-> IF rising THEN running_balance ELSE acc.peak_balance,
             max_drawdown |-> IF rising THEN acc.max_drawdown
                              ELSE RMax(acc.max_drawdown, drawdown),
             total_wins |-> IF win THEN RAdd(acc.total_wins, pnl) ELSE acc.total_wins,
             win_count |-> IF win THEN acc.win_count + 1 ELSE acc.win_count,
             total_losses |-> IF win THEN acc.total_losses
                              ELSE RAdd(acc.total_losses, RAbs(pnl)),
             loss_count |-> IF win THEN acc.loss_count ELSE acc.loss_count + 1])

\* line 331
AverageLoss(total_losses, loss_count) ==
    IF loss_count > 0 THEN RDiv(total_losses, RInt(loss_count)) ELSE Zero

calculate_metrics(log) ==
    IF log = <<>> THEN [done |-> TRUE, empty |-> TRUE]
    ELSE
      LET total_trades == Len(log)
          profitable_trades == Cardinality({k \in 1..Len(log) : RLt(Zero, log[k])})
          win_rate == RNorm(profitable_trades, total_trades)
          acc == MetricsLoop(log, 1, MetricsStart)
          avg_win == IF acc.win_count > 0 THEN RDiv(acc.total_wins, RInt(acc.win_count))
                     ELSE Zero
          avg_loss == AverageLoss(acc.total_losses, acc.loss_count)
          profit_factor == IF RLt(Zero, acc.total_losses)
                           THEN RDiv(acc.total_wins, acc.total_losses) ELSE Inf
          total_return == RMul(RDiv(RSub(acc.running_balance, RInt(initial_balance)),
                                    RInt(initial_balance)), RInt(100))
      IN  [done |-> TRUE, empty |-> FALSE,
           total_trades |-> total_trades,
           win_rate |-> PyRound(RMul(win_rate, RInt(100)), 2),
           total_return |-> PyRound(total_return, 2),
           max_drawdown |-> PyRound(acc.max_drawdown, 2),
           average_win |-> PyRound(avg_win, 2),
           average_loss |-> PyRound(avg_loss, 2),
           profit_factor |-> IF profit_factor = Inf THEN Inf ELSE PyRound(profit_factor, 2),
           final_capital |-> PyRound(acc.running_balance, 2)]

\* the trade logs handed to calculate_metrics
MaxTrades == 3
PnlValues == {RInt(-3), Zero, RInt(5), RInt(10)}
TradeLogs == {[used |-> TRUE, trades |-> log] :
                 log \in UNION {[1..n -> PnlValues] : n \in 0..MaxTrades}}

MtCall ==
    /\ mt_in.used /\ ~mt_out.done
    /\ mt_out' = calculate_metrics(mt_in.trades)
    /\ UNCHANGED mt_in

MetricsNext == MtCall /\ UNCHANGED <<btVars, sigVars, szVars, liveVars, histVars, fnVars>>

\* the mean of the pnls log[k], k in ks
RECURSIVE SumOver(_, _)
SumOver(log, ks) ==
    IF ks = {} THEN Zero
    ELSE LET k == CHOOSE i \in ks : TRUE IN RAdd(log[k], SumOver(log, ks \ {k}))
Wins(log) == {k \in 1..Len(log) : RLt(Zero, log[k])}
Losses(log) == {k \in 1..Len(log) : RLe(log[k], Zero)}
Mean(log, ks) == RDiv(SumOver(log, ks), RInt(Cardinality(ks)))

\* C20: for every non-empty trade log calculate_metrics reports the win rate
\* count(pnl > 0) / total, as average win the mean of the pnls > 0 and as
\* average loss the mean of the pnls <= 0, a non-positive number; for the
\* pnls +5, +10, -3 these are 66.67%, 7.5 and -3.
C20_MetricsIdentities ==
    (mt_out.done /\ ~mt_out.empty) =>
        LET log == mt_in.trades
        IN  /\ mt_out.win_rate =
                  PyRound(RMul(RNorm(Cardinality(Wins(log)), Len(log)), RInt(100)), 2)
            /\ Wins(log) # {} => mt_out.average_win = PyRound(Mean(log, Wins(log)), 2)
            /\ Losses(log) # {} =>
                  /\ mt_out.average_loss = PyRound(Mean(log, Losses(log)), 2)
                  /\ RLe(mt_out.average_loss, Zero)
            /\ log = <<RInt(5), RInt(10), RInt(-3)>> =>
                  /\ mt_out.win_rate = RNorm(6667, 100)
                  /\ mt_out.average_win = RNorm(75, 10)
                  /\ mt_out.average_loss = RInt(-3)

\* C21: for every non-empty trade log the profit factor is +infinity exactly
\* when no trade has pnl <= 0 and some trade has pnl > 0; in every other case
\* it is sum(pnl > 0) / |sum(pnl <= 0)|, so a log of zero-pnl trades does not
\* give +infinity.
C21_ProfitFactor ==
    (mt_out.done /\ ~mt_out.empty) =>
        LET log == mt_in.trades
            lost == RAbs(SumOver(log, Losses(log)))
        IN  /\ mt_out.profit_factor = Inf <=> (Losses(log) = {} /\ Wins(log) # {})
            /\ (Losses(log) # {} /\ lost # Zero) =>
                  mt_out.profit_factor = PyRound(RDiv(SumOver(log, Wins(log)), lost), 2)

\* the equity curve, its running maximum and the drawdown after k trades
Equity(log, k) == RAdd(RInt(initial_balance), SumOver(log, 1..k))
RECURSIVE Peak(_, _)
Peak(log, k) == IF k = 0 THEN Equity(log, 0) ELSE RMax(Peak(log, k - 1), Equity(log, k))
DrawdownAt(log, k) ==
    RMul(RDiv(RSub(Peak(log, k), Equity(log, k)), Peak(log, k)), RInt(100))
RECURSIVE MaxOver(_, _)
MaxOver(log, k) == IF k = 0 THEN Zero ELSE RMax(MaxOver(log, k - 1), DrawdownAt(log, k))
\* the locals of calculate_metrics after its loop has seen k trades
LoopAfter(log, k) == MetricsLoop(SubSeq(log, 1, k), 1, MetricsStart)

\* C22: in calculate_metrics the running peak of the equity curve starts at
\* the initial balance and never decreases, max_drawdown is never negative,
\* and max_drawdown is the maximum over the trades i of
\* (peak[i] - equity[i]) / peak[i] * 100, peak being the running maximum.
C22_Drawdown ==
    (mt_out.done /\ ~mt_out.empty) =>
        LET log == mt_in.trades
            n == Len(log)
        IN  /\ \A k \in 1..n :
                  /\ LoopAfter(log, k).peak_balance = Peak(log, k)
                  /\ RLe(LoopAfter(log, k - 1).peak_balance, LoopAfter(log, k).peak_balance)
                  /\ RLe(Zero, LoopAfter(log, k).max_drawdown)
                  /\ LoopAfter(log, k).max_drawdown = MaxOver(log, k)
            /\ mt_out.max_drawdown = PyRound(MaxOver(log, n), 2)
            /\ RLe(Zero, mt_out.max_drawdown)

\* C22 witness: the log +5, -3, +10: a fall below the first peak, then a new
\* peak, and a drawdown of 0.03 % reported
C22_Witness ==
    /\ mt_out.done /\ mt_in.trades = <<RInt(5), RInt(-3), RInt(10)>>
    /\ mt_out.max_drawdown = RNorm(3, 100)
    /\ RLt(Zero, LoopAfter(mt_in.trades, 2).max_drawdown)
    /\ RLt(LoopAfter(mt_in.trades, 2).peak_balance, LoopAfter(mt_in.trades, 3).peak_balance)

\* the pnl column of a trade log, as calculate_metrics reads it
Pnls(log) == [k \in 1..Len(log) |-> log[k].pnl]

RunPrices == {95, 98, 100, 102, 105}

run_backtest_loop ==
    /\ bar < MaxBars
    /\ \E close \in RunPrices :
       \E signal \in (IF bar < rsi_period \/ close # 100 THEN {0} ELSE RowSignals) :
          LET r == [timestamp |-> bar, close |-> RInt(close), Signal |-> signal]
          IN  /\ row' = r
              /\ execute_trade(r, signal)
    /\ bar' = bar + 1
    /\ UNCHANGED mtVars

\* line 441, after the last row
run_backtest_metrics ==
    /\ bar = MaxBars
    /\ ~mt_out.done
    /\ mt_out' = calculate_metrics(Pnls(trades))
    /\ UNCHANGED <<btVars, mt_in>>

RunNext ==
    (run_backtest_loop \/ run_backtest_metrics)
        /\ UNCHANGED <<sigVars, szVars, liveVars, histVars, fnVars>>

\* C33: the balance is initial_balance plus the pnl of the trades in the
\* log; a bar that opens a position or leaves one open changes neither the
\* balance nor the log; and calculate_metrics reports that balance as final
\* capital and (balance - initial_balance) / initial_balance * 100 as total
\* return, a position still open at the end counting for nothing
C33_BalanceIsEquity ==
    [][ /\ balance' = RAdd(RInt(initial_balance),
                           SumOver(Pnls(trades'), 1..Len(trades')))
        /\ current_position' # None => (balance' = balance /\ trades' = trades)
        /\ (mt_out'.done /\ ~mt_out'.empty) =>
              /\ mt_out'.total_trades = Len(trades')
              /\ mt_out'.final_capital = PyRound(balance', 2)
              /\ mt_out'.total_return =
                    PyRound(RMul(RDiv(RSub(balance', RInt(initial_balance)),
                                      RInt(initial_balance)), RInt(100)), 2)
      ]_vars

\* the run ended with one closed trade and a second position still open
C33_Witness ==
    /\ mt_out.done /\ ~mt_out.empty
    /\ IsOpen
    /\ Len(trades) = 1
    /\ balance # RInt(initial_balance)
    /\ mt_out.final_capital = balance

(***************************************************************************)
(* BinanceFuturesTrader.calculate_rsi.  A kline is modelled by its close   *)
(* (field 4), which float() turns into a number.                           *)
(***************************************************************************)
\* lines 427: the differences of consecutive closes
Deltas(closes) == [i \in 1..(Len(closes) - 1) |-> RSub(closes[i + 1], closes[i])]

\* lines 429-437
RsiGains(deltas) ==
    [i \in DOMAIN deltas |-> IF RLt(Zero, deltas[i]) THEN deltas[i] ELSE Zero]
RsiLosses(deltas) ==
    [i \in DOMAIN deltas |-> IF RLt(Zero, deltas[i]) THEN Zero ELSE RAbs(deltas[i])]

\* s[-n:]
LastOf(s, n) ==
    IF n = 0 \/ n >= Len(s) THEN s ELSE SubSeq(s, Len(s) - n + 1, Len(s))

RECURSIVE PySum(_)
PySum(s) == IF s = <<>> THEN Zero ELSE RAdd(Head(s), PySum(Tail(s)))

\* as calculate_rsi, without the test of line 442: the division raises and
\* the handler of lines 449-451 returns None
Mut_calculate_rsi_NoGuard(klines, period) ==
    IF period = 0 THEN PyNone
    ELSE
      LET closes == [i \in DOMAIN klines |-> RInt(klines[i])]
          deltas == Deltas(closes)
          avg_gain == RDiv(PySum(LastOf(RsiGains(deltas), period)), RInt(period))
          avg_loss == RDiv(PySum(LastOf(RsiLosses(deltas), period)), RInt(period))
      IN  IF avg_loss = Zero THEN PyNone
          ELSE RSub(RInt(100), RDiv(RInt(100), RAdd(One, RDiv(avg_gain, avg_loss))))

\* the number returned, PyNone when the except clause returned None
calculate_rsi(klines, period) ==
    IF period = 0 THEN PyNone
    ELSE
      LET closes == [i \in DOMAIN klines |-> RInt(klines[i])]
          deltas == Deltas(closes)
          avg_gain == RDiv(PySum(LastOf(RsiGains(deltas), period)), RInt(period))
          avg_loss == RDiv(PySum(LastOf(RsiLosses(deltas), period)), RInt(period))
      IN  IF avg_loss = Zero THEN RInt(100)
          ELSE LET rs == RDiv(avg_gain, avg_loss)
               IN  RSub(RInt(100), RDiv(RInt(100), RAdd(One, rs)))

\* the series and periods handed to calculate_rsi
MaxCloses == 7
RsiCloses == {99, 100, 102}
RsiPeriods == {2, Trader_rsi_period}
RsiInputs == {[used |-> TRUE, klines |-> k, period |-> p] :
                 k \in UNION {[1..n -> RsiCloses] : n \in 1..MaxCloses},
                 p \in RsiPeriods}

RsiCall ==
    /\ rsi_in.used /\ ~rsi_out.done
    /\ rsi_out' = [done |-> TRUE, rsi |-> calculate_rsi(rsi_in.klines, rsi_in.period)]
    /\ UNCHANGED rsi_in

RsiNext ==
    RsiCall /\ UNCHANGED <<btVars, sigVars, szVars, liveVars, histVars, mtVars,
                           second, fl_in, fl_out, et_out, crawler>>

\* the sum of the rises (up = TRUE) or of the falls among the differences
\* klines[i] - klines[i - 1], i in idx
RECURSIVE Moved(_, _, _)
Moved(klines, idx, up) ==
    IF idx = {} THEN 0
    ELSE LET i == CHOOSE j \in idx : TRUE
             d == klines[i] - klines[i - 1]
         IN  (IF up /\ d > 0 THEN d ELSE IF ~up /\ d < 0 THEN -d ELSE 0)
             + Moved(klines, idx \ {i}, up)

\* C24: for a series of at least period + 1 closes calculate_rsi returns a
\* number; 100 when the falls over the last period differences sum to 0;
\* otherwise 100 - 100 / (1 + avgGain / avgLoss), which lies in [0, 100) and
\* is 0 when there are no rises
C24_Rsi ==
    (rsi_out.done /\ Len(rsi_in.klines) >= rsi_in.period + 1) =>
        LET k == rsi_in.klines
            n == rsi_in.period
            last == (Len(k) - n + 1)..Len(k)
            gain == RNorm(Moved(k, last, TRUE), n)
            loss == RNorm(Moved(k, last, FALSE), n)
            rsi == rsi_out.rsi
        IN  /\ rsi # PyNone
            /\ loss = Zero => rsi = RInt(100)
            /\ loss # Zero =>
                  /\ rsi = RSub(RInt(100),
                               RDiv(RInt(100), RAdd(One, RDiv(gain, loss))))
                  /\ RLe(Zero, rsi) /\ RLt(rsi, RInt(100))
                  /\ gain = Zero => rsi = Zero

\* a flat series returned 100
C24_Witness ==
    /\ rsi_out.done
    /\ rsi_in.period = Trader_rsi_period
    /\ rsi_in.klines = <<100, 100, 100, 100, 100, 100>>
    /\ rsi_out.rsi = RInt(100)

\* a series with rises and falls returned a value strictly between 0 and 100
C24_WitnessMixed ==
    /\ rsi_out.done
    /\ rsi_in.period = Trader_rsi_period
    /\ rsi_in.klines = <<100, 102, 100, 99, 100, 102>>
    /\ RLt(Zero, rsi_out.rsi) /\ RLt(rsi_out.rsi, RInt(100))

(***************************************************************************)
(* Backtester.calculate_indicators: the RSI column, row by row.  Series    *)
(* arithmetic follows the floats: x / 0 is inf, 0 / 0 is NaN, and NaN      *)
(* stays NaN.                                                              *)
(***************************************************************************)
\* the quotient of two columns' entries
FDiv(a, b) ==
    IF a = NaN \/ b = NaN THEN NaN
    ELSE IF b = Zero
    THEN (IF a = Zero THEN NaN ELSE IF RLt(Zero, a) THEN Inf ELSE NegInf)
    ELSE IF b = Inf \/ b = NegInf
    THEN (IF a = Inf \/ a = NegInf THEN NaN ELSE Zero)
    ELSE RDiv(a, b)

FAdd(a, b) ==
    IF a = NaN \/ b = NaN THEN NaN
    ELSE IF a = Inf \/ b = Inf THEN Inf
    ELSE RAdd(a, b)

FSub(a, b) ==
    IF a = NaN \/ b = NaN THEN NaN
    ELSE IF b = Inf THEN NegInf
    ELSE RSub(a, b)

\* line 94: close.diff(); the first row has no predecessor
Diff(closes) ==
    [i \in DOMAIN closes |-> IF i = 1 THEN NaN ELSE RSub(closes[i], closes[i - 1])]

\* lines 95-96: delta.where(cond, 0); a NaN fails the condition and becomes 0
GainColumn(delta) == [i \in DOMAIN delta |-> IF FLt(Zero, delta[i]) THEN delta[i] ELSE Zero]
LossColumn(delta) ==
    [i \in DOMAIN delta |-> IF FLt(delta[i], Zero) THEN RNeg(delta[i]) ELSE Zero]

\* .rolling(window).mean(): NaN until the window is full
RollingMean(col, window) ==
    [i \in DOMAIN col |->
        IF i < window THEN NaN
        ELSE RDiv(PySum(SubSeq(col, i - window + 1, i)), RInt(window))]

\* the RSI column of the frame whose close column is closes
calculate_indicators(closes, period) ==
    LET delta == Diff(closes)
        gain == RollingMean(GainColumn(delta), period)
        loss == RollingMean(LossColumn(delta), period)
    IN  [i \in DOMAIN closes |->
            LET rs == FDiv(gain[i], loss[i])
            IN  FSub(RInt(100), FDiv(RInt(100), FAdd(One, rs)))]

\* both computations for the closes up to one bar
RsiBoth ==
    /\ rsi_in.used /\ ~rsi_out.done
    /\ LET closes == [i \in DOMAIN rsi_in.klines |-> RInt(rsi_in.klines[i])]
       IN  rsi_out' = [done |-> TRUE,
                       rsi |-> calculate_rsi(rsi_in.klines, rsi_in.period),
                       RSI |-> calculate_indicators(closes, rsi_in.period)[Len(closes)]]
    /\ UNCHANGED rsi_in

IndicatorsNext ==
    RsiBoth /\ UNCHANGED <<btVars, sigVars, szVars, liveVars, histVars, mtVars,
                           second, fl_in, fl_out, et_out, crawler>>

\* C31: for a series of at least period + 1 closes the RSI of the backtest's
\* last row equals what calculate_rsi returns for the same closes and
\* period, windows without falls and flat windows included
C31_SameRsi ==
    (rsi_out.done /\ Len(rsi_in.klines) >= rsi_in.period + 1) =>
        rsi_out.RSI = rsi_out.rsi

(***************************************************************************)
(* Backtester.generate_signals: the flow values looked up for one row.     *)
(* Times are in seconds; a flow sample is a row of the netflow file.       *)
(***************************************************************************)
freshness_seconds == 300

\* lines 111 and 128: the rows that can stand first among those not later
\* than the bar once the frame is sorted by Timestamp, latest first (rows of
\* equal Timestamp in either order)
ClosestData(samples, timestamp) ==
    {k \in DOMAIN samples :
        /\ samples[k].Timestamp <= timestamp
        /\ \A j \in DOMAIN samples :
              samples[j].Timestamp <= timestamp =>
                  samples[j].Timestamp <= samples[k].Timestamp}

NoFlow == [flow_5m |-> 0, flow_1h |-> 0]

\* as FlowOf, without the test of line 131
Mut_FlowOf_AnyAge(closest_data, timestamp) ==
    [flow_5m |-> closest_data.m5, flow_1h |-> closest_data.h1]

\* lines 130-133
FlowOf(closest_data, timestamp) ==
    LET time_diff == timestamp - closest_data.Timestamp
    IN  IF time_diff <= freshness_seconds
        THEN [flow_5m |-> closest_data.m5, flow_1h |-> closest_data.h1]
        ELSE NoFlow

\* the bars and netflow files handed to the loop body
MaxSamples == 3
BarTimes == {900}
SampleTimes == {599, 600, 660, 900, 960}
SampleFlows == {<<-100001, -500001>>, <<100001, 0>>}
Samples == {[Timestamp |-> ts, m5 |-> f[1], h1 |-> f[2]] :
               ts \in SampleTimes, f \in SampleFlows}
FlowInputs ==
    {[used |-> TRUE, i |-> i, timestamp |-> t, rsi |-> RInt(50),
      file |-> file, samples |-> smp] :
        i \in {rsi_period - 1, rsi_period}, t \in BarTimes, file \in BOOLEAN,
        smp \in UNION {[1..n -> Samples] : n \in 0..MaxSamples}}

\* one pass of the loop of lines 115-176 for row i
generate_signals_row ==
    /\ fl_in.used /\ ~fl_out.done
    /\ IF fl_in.i < rsi_period
       THEN fl_out' = [done |-> TRUE, looked |-> FALSE, flow |-> NoFlow, Signal |-> 0]
       ELSE \E flow \in
                IF fl_in.file /\ ClosestData(fl_in.samples, fl_in.timestamp) # {}
                THEN {FlowOf(fl_in.samples[k], fl_in.timestamp) :
                         k \in ClosestData(fl_in.samples, fl_in.timestamp)}
                ELSE {NoFlow} :
              fl_out' = [done |-> TRUE, looked |-> TRUE, flow |-> flow,
                         Signal |-> generate_signals(fl_in.rsi, flow.flow_5m,
                                                     flow.flow_1h)]
    /\ UNCHANGED fl_in

FlowNext ==
    generate_signals_row /\ UNCHANGED <<btVars, sigVars, szVars, liveVars, histVars,
                                        mtVars, second, rsi_in, rsi_out, et_out, crawler>>

\* the Timestamps of the file's samples that are not later than the bar
NotLater == IF fl_in.file
            THEN {fl_in.samples[k].Timestamp : k \in DOMAIN fl_in.samples}
                     \cap (0..fl_in.timestamp)
            ELSE {}

\* C25: the flow values used for the bar at t are those of a sample whose
\* Timestamp is the greatest one <= t, and only when t minus it is at most
\* 300 s; otherwise both are 0 and the signal is the one of zero flows
C25_FlowLookup ==
    (fl_out.done /\ fl_out.looked) =>
        IF NotLater # {} /\ \E ts \in NotLater : fl_in.timestamp - ts <= 300
        THEN LET best == CHOOSE ts \in NotLater : \A u \in NotLater : u <= ts
             IN  \E k \in DOMAIN fl_in.samples :
                    /\ fl_in.samples[k].Timestamp = best
                    /\ fl_out.flow.flow_5m = fl_in.samples[k].m5
                    /\ fl_out.flow.flow_1h = fl_in.samples[k].h1
        ELSE /\ fl_out.flow = NoFlow
             /\ fl_out.Signal = generate_signals(fl_in.rsi, 0, 0)

\* a file holding a stale sample and a later one, both beyond the flow
\* thresholds: the bar got zero flows and no signal
C25_Witness ==
    /\ fl_out.done /\ fl_out.looked
    /\ fl_in.file
    /\ Len(fl_in.samples) = 2
    /\ fl_in.samples[1].Timestamp = 599
    /\ fl_in.samples[2].Timestamp = 960
    /\ fl_out.flow = NoFlow
    /\ fl_out.Signal = 0

\* a sample exactly 300 s old decided the signal
C25_WitnessFresh ==
    /\ fl_out.done /\ fl_out.looked
    /\ fl_in.file
    /\ Len(fl_in.samples) = 1
    /\ fl_in.samples[1].Timestamp = 600
    /\ fl_out.Signal # 0

(***************************************************************************)
(* The specifications.  Each exercises one part of the program; the other  *)
(* parts stay as built.                                                    *)

(***************************************************************************)
(* The netflow crawler (coinglass/btc_crawler.py): one run of main().  A    *)
(* call of fetch_and_store_data ends in one of four ways: the page was      *)
(* read and a row was appended to the CSV file, the page was read and       *)
(* save_data wrote nothing (its own except clause, or its early return),    *)
(* fetch_data returned None, or fetch_data raised.                          *)
(***************************************************************************)
crawler_max_retries == 3
FetchOutcomes == {"saved", "not_saved", "no_data", "raised"}

\* lines 315-327: no statement of the function returns a value, so the call
\* evaluates to None whatever happened
fetch_and_store_data(outcome, rows) ==
    [result |-> PyNone, rows |-> IF outcome = "saved" THEN rows + 1 ELSE rows]

CrawlerStart ==
    [pc |-> "initial", retry_count |-> 0, initial_success |-> FALSE,
     rows |-> 0, attempts |-> <<>>]

\* lines 340-353: one pass of the initial loop
main_initial_attempt ==
    /\ crawler.pc = "initial"
    /\ crawler.retry_count < crawler_max_retries /\ ~crawler.initial_success
    /\ \E outcome \in FetchOutcomes :
          LET call == fetch_and_store_data(outcome, crawler.rows)
          IN  crawler' = [crawler EXCEPT
                            !.rows = call.rows,
                            !.attempts = Append(@, outcome),
                            !.initial_success = Truthy(call.result),
                            !.retry_count = IF Truthy(call.result) THEN @ ELSE @ + 1]

\* lines 341 and 357-362: the loop is left; main returns or goes on to its main loop
main_initial_exit ==
    /\ crawler.pc = "initial"
    /\ ~(crawler.retry_count < crawler_max_retries /\ ~crawler.initial_success)
    /\ crawler' = [crawler EXCEPT
                     !.pc = IF ~crawler.initial_success THEN "returned" ELSE "main_loop"]

CrawlerNext ==
    (main_initial_attempt \/ main_initial_exit)
        /\ UNCHANGED <<btVars, sigVars, szVars, liveVars, histVars, mtVars,
                       second, rsi_in, rsi_out, fl_in, fl_out, et_out>>

\* C37: when an initial fetch_and_store_data has fetched the data and saved
\* a row, main goes on to its main loop; it returns with "Failed to fetch
\* initial data" only after three initial attempts none of which stored data.
C37_InitialFetchCounts ==
    /\ crawler.pc = "returned" =>
          /\ Len(crawler.attempts) = crawler_max_retries
          /\ \A i \in 1..Len(crawler.attempts) : crawler.attempts[i] # "saved"
    /\ (crawler.attempts # <<>> /\ crawler.attempts[Len(crawler.attempts)] = "saved") =>
          crawler.initial_success

(***************************************************************************)
Unused == {[used |-> FALSE]}

\* the state after construction: Backtester.__init__, a BinanceFuturesTrader
\* with an empty sl_tp_orders, main()'s event and threads, and the inputs
\* handed to the signal functions and to calculate_position_size
Built(sig_inputs, sz_inputs, mt_inputs, rsi_inputs, fl_inputs) ==
    /\ bar = 0
    /\ row = NoRow
    /\ current_position = None
    /\ trades = <<>>
    /\ balance = RInt(initial_balance)
    /\ opened = 0
    /\ sig_in \in sig_inputs
    /\ sig_out = [bt_done |-> FALSE, bt |-> 0,
                  tr_done |-> FALSE, tr |-> NoSignal,
                  gui_done |-> FALSE, gui |-> "NO SIGNAL"]
    /\ sz_in \in sz_inputs
    /\ sz_out = [done |-> FALSE]
    /\ ex_pos = [amt |-> Zero, entryPrice |-> Zero]
    /\ ex_leverage = 20
    /\ ex_orders = {}
    /\ sl_tp_orders = NotStored
    /\ stop_event = FALSE
    /\ pc = [t \in Threads |-> IF t = "strategy" THEN "loop" ELSE "idle"]
    /\ loc = [t \in Threads |-> InitLoc]
    /\ opens_since_close = 0
    /\ current_time = 0
    /\ observed = "NO SIGNAL"
    /\ prev_signal = "None"
    /\ prev_signal_time = <<>>
    /\ signal_history = <<>>
    /\ observations = 0
    /\ mt_in \in mt_inputs
    /\ mt_out = [done |-> FALSE]
    /\ second = Fresh
    /\ rsi_in \in rsi_inputs
    /\ rsi_out = [done |-> FALSE]
    /\ fl_in \in fl_inputs
    /\ fl_out = [done |-> FALSE]
    /\ et_out = [done |-> FALSE]
    /\ crawler = CrawlerStart

SpecBacktest == Built(Unused, Unused, Unused, Unused, Unused) /\ [][BTNext]_vars

SpecTwice == Built(Unused, Unused, Unused, Unused, Unused) /\ [][TwiceNext]_vars

SpecSignal == Built(SigReadings, Unused, Unused, Unused, Unused) /\ [][SigNext]_vars

SpecSizer == Built(Unused, SizeInputs, Unused, Unused, Unused) /\ [][SzNext]_vars

SpecLive == Built(Unused, Unused, Unused, Unused, Unused) /\ [][LiveNext]_vars

\* the threads run: the strategy thread takes its next step whenever it can,
\* every exchange call it makes returning or raising, and the GUI thread does
\* not stop inside a statement that calls nothing
GuiLocalStep == pc["gui"] \in LocalLabels /\ LiveStep("gui")
SpecLiveFair ==
    /\ Built(Unused, Unused, Unused, Unused, Unused) /\ [][LiveNext]_vars
    /\ WF_vars(LiveStep("strategy")) /\ WF_vars(GuiLocalStep)

SpecMetrics == Built(Unused, Unused, TradeLogs, Unused, Unused) /\ [][MetricsNext]_vars

SpecHistory == Built(Unused, Unused, Unused, Unused, Unused) /\ [][HistNext]_vars

SpecFlow == Built(Unused, Unused, Unused, Unused, FlowInputs) /\ [][FlowNext]_vars

SpecTrade == Built(Unused, TradeInputs, Unused, Unused, Unused) /\ [][TradeNext]_vars

SpecIndicators ==
    Built(Unused, Unused, Unused, RsiInputs, Unused) /\ [][IndicatorsNext]_vars

SpecRun == Built(Unused, Unused, Unused, Unused, Unused) /\ [][RunNext]_vars

SpecCrawler == Built(Unused, Unused, Unused, Unused, Unused) /\ [][CrawlerNext]_vars

SpecRsi == Built(Unused, Unused, Unused, RsiInputs, Unused) /\ [][RsiNext]_vars

====
